---- MODULE Spec2Model ----
(***************************************************************************)
(* GraphStore: a directed, unweighted graph whose vertices carry string    *)
(* labels, with a label-constrained breadth-first shortest-path query.     *)
(*                                                                         *)
(* The model runs two stores side by side, one per Strategy, and hands     *)
(* every operation to both, the way the parameterised tests of the         *)
(* repository drive an OPTIMIZED_MEMORY and an OPTIMIZED_PERFORMANCE       *)
(* store through the same calls.                                           *)
(*                                                                         *)
(* std::vector is a sequence (vertex v sits at index v + 1),               *)
(* std::unordered_map is a function whose DOMAIN is its key set,           *)
(* std::unordered_set is a set.                                            *)
(***************************************************************************)
EXTENDS Integers, Sequences, FiniteSets, TLC

(***************************************************************************)
(* Bounds of the model.                                                    *)
(***************************************************************************)
\* most vertices a store may hold
MaxVertices == 3
\* most edges a store may hold (summed over all adjacency lists)
MaxEdges == 3
\* longest edge list handed to the bulk constructor
MaxInitEdges == 1

\* the label strings the clients use
Labels == {"1", "2"}

\* std::numeric_limits<std::uint64_t>::max().  TLC's integers have 32 bits,
\* so the model's unsigned word has 30 bits: all arithmetic on distances is
\* taken modulo UINT64_MAX + 1, as the code's is modulo 2^64.
UINT64_MAX == 1073741823

Strategy == {"OPTIMIZED_PERFORMANCE", "OPTIMIZED_MEMORY"}

VARIABLES
    \* store[s]: the GraphStore built with strategy s
    \*   graph_        : [neighbours, label_to_vertices]
    \*   vertex_state_ : the VertexState object the store owns
    store,
    \* issued[s]: every id CreateVertex has returned on store[s], in call order
    issued,
    \* the call whose execution is followed step by step: a constructor call or
    \* a ShortestPath call with its local variables; Idle while the stores are
    \* between calls (a call that is not followed is one step)
    call

vars == <<store, issued, call>>

\* no call is being followed
Idle == [op |-> "none"]

(***************************************************************************)
(* Small helpers for the containers.                                       *)
(***************************************************************************)
\* unordered_map: m[k] = v, inserting the key when absent
MapPut(m, k, v) == [x \in (DOMAIN m) \cup {k} |-> IF x = k THEN v ELSE m[x]]

\* the empty unordered_map
EmptyMap == [x \in {} |-> 0]

\* the elements of a vector, as a set
Range(s) == {s[i] : i \in 1..Len(s)}

\* x + 1 on the unsigned word
Inc(x) == (x + 1) % (UINT64_MAX + 1)

(***************************************************************************)
(* OptimizedMemoryVertexState: distances and parents in two hash maps.     *)
(***************************************************************************)
OptimizedMemoryVertexState ==
    [type |-> "OptimizedMemoryVertexState", parent_ |-> EmptyMap, distances_ |-> EmptyMap,
     accessed |-> {}, ub |-> FALSE, writes |-> <<>>]

\* GetDistance that reads a missing key with operator[], which yields 0
OptimizedMemory_GetDistance_ZeroWhenUnset(vs, vertex_id) ==
    IF vertex_id \in DOMAIN vs.distances_ THEN vs.distances_[vertex_id] ELSE 0

OptimizedMemory_GetDistance(vs, vertex_id) ==
    IF vertex_id \in DOMAIN vs.distances_ THEN vs.distances_[vertex_id] ELSE UINT64_MAX

OptimizedMemory_SetDistance(vs, vertex_id, value) ==
    [vs EXCEPT !.distances_ = MapPut(@, vertex_id, value)]

OptimizedMemory_GetParent(vs, vertex_id) ==
    IF vertex_id \in DOMAIN vs.parent_ THEN vs.parent_[vertex_id] ELSE UINT64_MAX

OptimizedMemory_SetParent(vs, vertex_id, parent_vertex_id) ==
    [vs EXCEPT !.parent_ = MapPut(@, vertex_id, parent_vertex_id)]

OptimizedMemory_Reset(vs) ==
    [vs EXCEPT !.distances_ = EmptyMap, !.parent_ = EmptyMap]

\* VertexState::ProcessVertexAddition, which the memory variant inherits
VertexState_ProcessVertexAddition(vs) == vs

(***************************************************************************)
(* OptimizedPerformanceVertexState: distances and parents in two vectors   *)
(* indexed by vertex id, and the list of the indices changed since the     *)
(* last Reset.                                                             *)
(*                                                                         *)
(* Both variants carry three history fields that the code does not have:   *)
(* accessed, the entries read or written during the current call, ub, set  *)
(* once a vector was indexed past its end, and writes, the SetDistance and *)
(* SetParent calls of the current call in the order they were made.        *)
(* Indexing past the end is undefined behaviour: a call in which it        *)
(* happened returns Undefined, a value no claim about a result accepts     *)
(* (the operators below leave the vector as it is on such an access).      *)
(***************************************************************************)
OptimizedPerformanceVertexState ==
    [type |-> "OptimizedPerformanceVertexState", parent_ |-> <<>>, distances_ |-> <<>>,
     affected_vertices_ |-> <<>>, accessed |-> {}, ub |-> FALSE, writes |-> <<>>]

OptimizedPerformance_GetDistance(vs, vertex_id) ==
    IF vertex_id < Len(vs.distances_) THEN vs.distances_[vertex_id + 1] ELSE UINT64_MAX

OptimizedPerformance_SetDistance(vs, vertex_id, value) ==
    [vs EXCEPT !.distances_ = IF vertex_id < Len(@) THEN [@ EXCEPT ![vertex_id + 1] = value] ELSE @,
               !.affected_vertices_ = Append(@, vertex_id)]

OptimizedPerformance_GetParent(vs, vertex_id) ==
    IF vertex_id < Len(vs.parent_) THEN vs.parent_[vertex_id + 1] ELSE UINT64_MAX

OptimizedPerformance_SetParent(vs, vertex_id, parent_vertex_id) ==
    [vs EXCEPT !.parent_ = IF vertex_id < Len(@) THEN [@ EXCEPT ![vertex_id + 1] = parent_vertex_id] ELSE @]

\* Reset that clears the list of affected vertices and leaves their entries
OptimizedPerformance_Reset_ListOnly(vs) == [vs EXCEPT !.affected_vertices_ = <<>>]

OptimizedPerformance_Reset(vs) ==
    LET affected == Range(vs.affected_vertices_)
    IN  [vs EXCEPT !.parent_ = [i \in 1..Len(@) |-> IF (i - 1) \in affected THEN 0 ELSE @[i]],
                   !.distances_ = [i \in 1..Len(@) |-> IF (i - 1) \in affected THEN UINT64_MAX ELSE @[i]],
                   !.affected_vertices_ = <<>>]

\* ProcessVertexAddition that grows the vector of parents only
OptimizedPerformance_ProcessVertexAddition_ParentOnly(vs) ==
    [vs EXCEPT !.parent_ = Append(@, 0)]

OptimizedPerformance_ProcessVertexAddition(vs) ==
    [vs EXCEPT !.parent_ = Append(@, 0), !.distances_ = Append(@, UINT64_MAX)]

(***************************************************************************)
(* The virtual calls through VertexState*.                                 *)
(***************************************************************************)
IsMemory(vs) == vs.type = "OptimizedMemoryVertexState"

GetDistance(vs, vertex_id) ==
    IF IsMemory(vs) THEN OptimizedMemory_GetDistance(vs, vertex_id)
    ELSE OptimizedPerformance_GetDistance(vs, vertex_id)

SetDistance(vs, vertex_id, value) ==
    LET written == IF IsMemory(vs) THEN OptimizedMemory_SetDistance(vs, vertex_id, value)
                   ELSE OptimizedPerformance_SetDistance(vs, vertex_id, value)
    IN  [written EXCEPT !.writes = Append(@, <<"distance", vertex_id, value>>)]

GetParent(vs, vertex_id) ==
    IF IsMemory(vs) THEN OptimizedMemory_GetParent(vs, vertex_id)
    ELSE OptimizedPerformance_GetParent(vs, vertex_id)

SetParent(vs, vertex_id, parent_vertex_id) ==
    LET written == IF IsMemory(vs) THEN OptimizedMemory_SetParent(vs, vertex_id, parent_vertex_id)
                   ELSE OptimizedPerformance_SetParent(vs, vertex_id, parent_vertex_id)
    IN  [written EXCEPT !.writes = Append(@, <<"parent", vertex_id, parent_vertex_id>>)]

Reset(vs) ==
    IF IsMemory(vs) THEN OptimizedMemory_Reset(vs) ELSE OptimizedPerformance_Reset(vs)

ProcessVertexAddition(vs) ==
    IF IsMemory(vs) THEN VertexState_ProcessVertexAddition(vs)
    ELSE OptimizedPerformance_ProcessVertexAddition(vs)

\* an access to entry vertex_id that indexes a vector past its end
OutOfBounds(vs, vertex_id) == ~IsMemory(vs) /\ vertex_id >= Len(vs.distances_)

\* record that the caller reads or writes the entries ids of vs
Touch(vs, ids) ==
    [vs EXCEPT !.accessed = @ \cup ids,
               !.ub = @ \/ (\E v \in ids : OutOfBounds(vs, v))]

\* the entries a Reset writes
ResetWrites(vs) == IF IsMemory(vs) THEN {} ELSE Range(vs.affected_vertices_)

\* the history fields, emptied
ClearHistory(vs) == [vs EXCEPT !.accessed = {}, !.ub = FALSE, !.writes = <<>>]

(***************************************************************************)
(* Values a call returns.                                                  *)
(***************************************************************************)
\* std::nullopt
NullOpt == [has_value |-> FALSE]

\* an optional holding the Path {length, vertices}
Some(length, vertices) == [has_value |-> TRUE, length |-> length, vertices |-> vertices]

\* the call does not return (its loop or its recursion never ends)
Diverges == [has_value |-> FALSE, diverges |-> TRUE]

\* the call ran into undefined behaviour
Undefined == [has_value |-> FALSE, undefined |-> TRUE]

(***************************************************************************)
(* VertexState::FindPath: findPathRec walks the parents from the           *)
(* destination back to the source and appends the vertices on the way      *)
(* out of the recursion.  fuel bounds the depth of the recursion: a chain  *)
(* of parents that has not met the source after more steps than there are  *)
(* vertices never will.  The result is [vs, vertices, diverges].           *)
(***************************************************************************)
RECURSIVE findPathRec(_, _, _, _)
findPathRec(vs, curr_vertex_id, src_vertex_id, fuel) ==
    IF curr_vertex_id = src_vertex_id
    THEN [vs |-> vs, vertices |-> <<curr_vertex_id>>, diverges |-> FALSE]
    ELSE IF fuel = 0
    THEN [vs |-> vs, vertices |-> <<>>, diverges |-> TRUE]
    ELSE LET vs1 == Touch(vs, {curr_vertex_id})
             rec == findPathRec(vs1, GetParent(vs1, curr_vertex_id), src_vertex_id, fuel - 1)
         IN  [rec EXCEPT !.vertices = Append(@, curr_vertex_id)]

\* FindPath with the length taken to be the number of vertices
FindPath_LengthIsSize(vs, src_vertex_id, dst_vertex_id, fuel) ==
    LET rec == findPathRec(vs, dst_vertex_id, src_vertex_id, fuel)
    IN  [vs |-> rec.vs,
         path |-> IF rec.diverges THEN Diverges
                  ELSE Some(Len(rec.vertices), rec.vertices)]

FindPath(vs, src_vertex_id, dst_vertex_id, fuel) ==
    LET rec == findPathRec(vs, dst_vertex_id, src_vertex_id, fuel)
    IN  [vs |-> rec.vs,
         path |-> IF rec.diverges THEN Diverges
                  ELSE Some(Len(rec.vertices) - 1, rec.vertices)]

(***************************************************************************)
(* GraphStore.  An operation takes the store and its arguments and yields  *)
(* [gs |-> the store afterwards, ret |-> the value returned].              *)
(***************************************************************************)
\* graph_util::LabelledGraph, as default-constructed
LabelledGraph == [neighbours |-> <<>>, label_to_vertices |-> EmptyMap]

\* GraphStore::GraphStore(const Strategy strategy)
GraphStore(strategy) ==
    [graph_ |-> LabelledGraph,
     vertex_state_ |-> IF strategy = "OPTIMIZED_MEMORY" THEN OptimizedMemoryVertexState
                       ELSE OptimizedPerformanceVertexState]

vertexExists(gs, vertex_id) == vertex_id < Len(gs.graph_.neighbours)

\* CreateVertex that reads the size after the vertex is appended
CreateVertex_SizeAfter(gs) ==
    LET id == Len(gs.graph_.neighbours) + 1
    IN  [gs |-> [gs EXCEPT !.graph_.neighbours = Append(@, <<>>),
                           !.vertex_state_ = ProcessVertexAddition(@)],
         ret |-> id]

\* CreateVertex that does not tell the VertexState of the new vertex
CreateVertex_NoNotify(gs) ==
    LET id == Len(gs.graph_.neighbours)
    IN  [gs |-> [gs EXCEPT !.graph_.neighbours = Append(@, <<>>)],
         ret |-> id]

CreateVertex(gs) ==
    LET id == Len(gs.graph_.neighbours)
    IN  [gs |-> [gs EXCEPT !.graph_.neighbours = Append(@, <<>>),
                           !.vertex_state_ = ProcessVertexAddition(@)],
         ret |-> id]

\* CreateEdge that checks the source only
CreateEdge_ChecksSrcOnly(gs, src_vertex_id, dst_vertex_id) ==
    IF ~vertexExists(gs, src_vertex_id)
    THEN [gs |-> gs, ret |-> FALSE]
    ELSE [gs |-> [gs EXCEPT !.graph_.neighbours[src_vertex_id + 1] = Append(@, dst_vertex_id)],
          ret |-> TRUE]

\* CreateEdge that keeps an adjacency list free of duplicates
CreateEdge_Dedup(gs, src_vertex_id, dst_vertex_id) ==
    IF ~vertexExists(gs, src_vertex_id) \/ ~vertexExists(gs, dst_vertex_id)
    THEN [gs |-> gs, ret |-> FALSE]
    ELSE IF dst_vertex_id \in Range(gs.graph_.neighbours[src_vertex_id + 1])
    THEN [gs |-> gs, ret |-> TRUE]
    ELSE [gs |-> [gs EXCEPT !.graph_.neighbours[src_vertex_id + 1] = Append(@, dst_vertex_id)],
          ret |-> TRUE]

CreateEdge(gs, src_vertex_id, dst_vertex_id) ==
    IF ~vertexExists(gs, src_vertex_id) \/ ~vertexExists(gs, dst_vertex_id)
    THEN [gs |-> gs, ret |-> FALSE]
    ELSE [gs |-> [gs EXCEPT !.graph_.neighbours[src_vertex_id + 1] = Append(@, dst_vertex_id)],
          ret |-> TRUE]

\* AddLabel that takes the vertex out of the set when it is already there
AddLabel_Toggle(gs, vertex_id, label) ==
    IF ~vertexExists(gs, vertex_id)
    THEN [gs |-> gs, ret |-> FALSE]
    ELSE LET l2v == gs.graph_.label_to_vertices
             old == IF label \in DOMAIN l2v THEN l2v[label] ELSE {}
         IN  [gs |-> [gs EXCEPT !.graph_.label_to_vertices =
                          MapPut(l2v, label, IF vertex_id \in old THEN old \ {vertex_id}
                                             ELSE old \cup {vertex_id})],
              ret |-> TRUE]

\* AddLabel that does not look whether the vertex exists
AddLabel_NoExistenceCheck(gs, vertex_id, label) ==
    LET l2v == gs.graph_.label_to_vertices
        old == IF label \in DOMAIN l2v THEN l2v[label] ELSE {}
    IN  [gs |-> [gs EXCEPT !.graph_.label_to_vertices = MapPut(l2v, label, old \cup {vertex_id})],
         ret |-> TRUE]

AddLabel(gs, vertex_id, label) ==
    IF ~vertexExists(gs, vertex_id)
    THEN [gs |-> gs, ret |-> FALSE]
    ELSE LET l2v == gs.graph_.label_to_vertices
             \* operator[] inserts an empty set for a key that is not there
             old == IF label \in DOMAIN l2v THEN l2v[label] ELSE {}
         IN  [gs |-> [gs EXCEPT !.graph_.label_to_vertices = MapPut(l2v, label, old \cup {vertex_id})],
              ret |-> TRUE]

\* RemoveLabel that reaches the set with operator[], which inserts the key
RemoveLabel_IndexOperator(gs, vertex_id, label) ==
    IF ~vertexExists(gs, vertex_id)
    THEN [gs |-> gs, ret |-> FALSE]
    ELSE LET l2v == gs.graph_.label_to_vertices
             old == IF label \in DOMAIN l2v THEN l2v[label] ELSE {}
         IN  [gs |-> [gs EXCEPT !.graph_.label_to_vertices = MapPut(l2v, label, old \ {vertex_id})],
              ret |-> TRUE]

\* RemoveLabel that takes the label from every vertex holding it
RemoveLabel_ClearsLabel(gs, vertex_id, label) ==
    IF ~vertexExists(gs, vertex_id)
    THEN [gs |-> gs, ret |-> FALSE]
    ELSE LET l2v == gs.graph_.label_to_vertices
         IN  IF label \in DOMAIN l2v
             THEN [gs |-> [gs EXCEPT !.graph_.label_to_vertices[label] = {}],
                   ret |-> TRUE]
             ELSE [gs |-> gs, ret |-> TRUE]

RemoveLabel(gs, vertex_id, label) ==
    IF ~vertexExists(gs, vertex_id)
    THEN [gs |-> gs, ret |-> FALSE]
    ELSE LET l2v == gs.graph_.label_to_vertices
         IN  IF label \in DOMAIN l2v
             THEN [gs |-> [gs EXCEPT !.graph_.label_to_vertices[label] = @ \ {vertex_id}],
                   ret |-> TRUE]
             ELSE [gs |-> gs, ret |-> TRUE]

\* resetVertexStateAndReturn that returns without the Reset
resetVertexStateAndReturn_NoReset(gs, path) == [gs |-> gs, ret |-> path]

resetVertexStateAndReturn(gs, path) ==
    [gs |-> [gs EXCEPT !.vertex_state_ = Reset(Touch(@, ResetWrites(@)))],
     ret |-> path]

(***************************************************************************)
(* The breadth-first search of ShortestPath.  bfs is the state of the      *)
(* loop: [vs, vertex_queue, reached_dst_vertex, diverges].                 *)
(***************************************************************************)
\* Relax with the push onto the queue forgotten
Relax_NoPush(bfs, curr_vertex, neighbour) ==
    LET vs0 == Touch(bfs.vs, {curr_vertex, neighbour})
        distance_to_curr == GetDistance(vs0, curr_vertex)
        distance_to_neighbour == GetDistance(vs0, neighbour)
    IN  IF distance_to_neighbour > Inc(distance_to_curr)
        THEN [bfs EXCEPT !.vs = SetParent(SetDistance(vs0, neighbour, Inc(distance_to_curr)),
                                          neighbour, curr_vertex)]
        ELSE [bfs EXCEPT !.vs = vs0]

\* Relax that takes a neighbour it has a distance for already as the sign
\* of a cycle and gives the search up
Relax_GivesUpOnRevisit(bfs, curr_vertex, neighbour) ==
    LET vs0 == Touch(bfs.vs, {curr_vertex, neighbour})
        distance_to_curr == GetDistance(vs0, curr_vertex)
        distance_to_neighbour == GetDistance(vs0, neighbour)
    IN  IF distance_to_neighbour > Inc(distance_to_curr)
        THEN [bfs EXCEPT !.vs = SetParent(SetDistance(vs0, neighbour, Inc(distance_to_curr)),
                                          neighbour, curr_vertex),
                         !.vertex_queue = Append(@, neighbour)]
        ELSE [bfs EXCEPT !.vs = vs0, !.vertex_queue = <<>>]

\* Relax with >= in the place of >
Relax_NotStrict(bfs, curr_vertex, neighbour) ==
    LET vs0 == Touch(bfs.vs, {curr_vertex, neighbour})
        distance_to_curr == GetDistance(vs0, curr_vertex)
        distance_to_neighbour == GetDistance(vs0, neighbour)
    IN  IF distance_to_neighbour >= Inc(distance_to_curr)
        THEN [bfs EXCEPT !.vs = SetParent(SetDistance(vs0, neighbour, Inc(distance_to_curr)),
                                          neighbour, curr_vertex),
                         !.vertex_queue = Append(@, neighbour)]
        ELSE [bfs EXCEPT !.vs = vs0]

\* Relax that records the neighbour as its own parent
Relax_ParentIsNeighbour(bfs, curr_vertex, neighbour) ==
    LET vs0 == Touch(bfs.vs, {curr_vertex, neighbour})
        distance_to_curr == GetDistance(vs0, curr_vertex)
        distance_to_neighbour == GetDistance(vs0, neighbour)
    IN  IF distance_to_neighbour > Inc(distance_to_curr)
        THEN [bfs EXCEPT !.vs = SetParent(SetDistance(vs0, neighbour, Inc(distance_to_curr)),
                                          neighbour, neighbour),
                         !.vertex_queue = Append(@, neighbour)]
        ELSE [bfs EXCEPT !.vs = vs0]

\* Relax without the comparison: every labelled neighbour is written and pushed
Relax_Always(bfs, curr_vertex, neighbour) ==
    LET vs0 == Touch(bfs.vs, {curr_vertex, neighbour})
        distance_to_curr == GetDistance(vs0, curr_vertex)
    IN  [bfs EXCEPT !.vs = SetParent(SetDistance(vs0, neighbour, Inc(distance_to_curr)),
                                     neighbour, curr_vertex),
                    !.vertex_queue = Append(@, neighbour)]

\* lines 126-134: one labelled neighbour of curr_vertex is looked at
Relax(bfs, curr_vertex, neighbour) ==
    LET vs0 == Touch(bfs.vs, {curr_vertex, neighbour})
        distance_to_curr == GetDistance(vs0, curr_vertex)
        distance_to_neighbour == GetDistance(vs0, neighbour)
    IN  IF distance_to_neighbour > Inc(distance_to_curr)
        THEN [bfs EXCEPT !.vs = SetParent(SetDistance(vs0, neighbour, Inc(distance_to_curr)),
                                          neighbour, curr_vertex),
                         !.vertex_queue = Append(@, neighbour)]
        ELSE [bfs EXCEPT !.vs = vs0]

\* lines 121-142: the for loop over the neighbours of curr_vertex, from the i-th on
RECURSIVE Expand(_, _, _, _, _, _)
Expand(gs, label, dst_vertex_id, curr_vertex, i, bfs) ==
    LET adjacent == gs.graph_.neighbours[curr_vertex + 1]
        valid_vertices == gs.graph_.label_to_vertices[label]
    IN  IF i > Len(adjacent) THEN bfs
        ELSE IF adjacent[i] \notin valid_vertices
        THEN Expand(gs, label, dst_vertex_id, curr_vertex, i + 1, bfs)
        ELSE LET bfs1 == Relax(bfs, curr_vertex, adjacent[i])
             IN  IF adjacent[i] = dst_vertex_id
                 THEN [bfs1 EXCEPT !.reached_dst_vertex = TRUE]
                 ELSE Expand(gs, label, dst_vertex_id, curr_vertex, i + 1, bfs1)

\* lines 117-143: the while loop.  fuel bounds the number of vertices taken
\* from the queue; a loop that needs more than the store has vertices would
\* take one of them twice and never ends.
RECURSIVE BfsLoop(_, _, _, _, _)
BfsLoop(gs, label, dst_vertex_id, bfs, fuel) ==
    IF bfs.vertex_queue = <<>> \/ bfs.reached_dst_vertex THEN bfs
    ELSE IF fuel = 0 THEN [bfs EXCEPT !.diverges = TRUE]
    ELSE LET curr_vertex == Head(bfs.vertex_queue)
             popped == [bfs EXCEPT !.vertex_queue = Tail(@)]
         IN  BfsLoop(gs, label, dst_vertex_id,
                     Expand(gs, label, dst_vertex_id, curr_vertex, 1, popped), fuel - 1)

\* Seed without the case of the source being the destination
Seed_NoSameVertexCase(gs, src_vertex_id, dst_vertex_id) ==
    [vs |-> SetDistance(Touch(gs.vertex_state_, {src_vertex_id}), src_vertex_id, 0),
     vertex_queue |-> <<src_vertex_id>>,
     reached_dst_vertex |-> FALSE,
     diverges |-> FALSE]

\* Seed that does not set the distance of the source
Seed_NoSetDistance(gs, src_vertex_id, dst_vertex_id) ==
    [vs |-> Touch(gs.vertex_state_, {src_vertex_id}),
     vertex_queue |-> <<src_vertex_id>>,
     reached_dst_vertex |-> (src_vertex_id = dst_vertex_id),
     diverges |-> FALSE]

\* lines 108-115: the state the loop starts from
Seed(gs, src_vertex_id, dst_vertex_id) ==
    [vs |-> SetDistance(Touch(gs.vertex_state_, {src_vertex_id}), src_vertex_id, 0),
     vertex_queue |-> <<src_vertex_id>>,
     reached_dst_vertex |-> (src_vertex_id = dst_vertex_id),
     diverges |-> FALSE]

\* lines 108-151: the part of ShortestPath after its three checks
Search(gs, src_vertex_id, dst_vertex_id, label) ==
    LET fuel == Len(gs.graph_.neighbours) + 1
        bfs == BfsLoop(gs, label, dst_vertex_id, Seed(gs, src_vertex_id, dst_vertex_id), fuel)
        searched == [gs EXCEPT !.vertex_state_ = bfs.vs]
    IN  IF bfs.diverges THEN [gs |-> searched, ret |-> Diverges]
        ELSE IF ~bfs.reached_dst_vertex THEN resetVertexStateAndReturn(searched, NullOpt)
        ELSE LET found == FindPath(bfs.vs, src_vertex_id, dst_vertex_id, fuel)
             IN  [gs |-> [gs EXCEPT !.vertex_state_ = Reset(Touch(found.vs, ResetWrites(found.vs)))],
                  ret |-> found.path]

\* ShortestPath with the distance of the source set before the checks
ShortestPathBody_SeedFirst(gs, src_vertex_id, dst_vertex_id, label) ==
    LET seeded == [gs EXCEPT !.vertex_state_ = Seed(gs, src_vertex_id, dst_vertex_id).vs]
    IN  IF ~vertexExists(gs, src_vertex_id) \/ ~vertexExists(gs, dst_vertex_id)
        THEN resetVertexStateAndReturn(seeded, NullOpt)
        ELSE IF label \notin DOMAIN gs.graph_.label_to_vertices
        THEN resetVertexStateAndReturn(seeded, NullOpt)
        ELSE IF src_vertex_id \notin gs.graph_.label_to_vertices[label]
                \/ dst_vertex_id \notin gs.graph_.label_to_vertices[label]
        THEN resetVertexStateAndReturn(seeded, NullOpt)
        ELSE Search(gs, src_vertex_id, dst_vertex_id, label)

\* ShortestPath with the third check looking at the destination only
ShortestPathBody_NoSrcCheck(gs, src_vertex_id, dst_vertex_id, label) ==
    IF ~vertexExists(gs, src_vertex_id) \/ ~vertexExists(gs, dst_vertex_id)
    THEN resetVertexStateAndReturn(gs, NullOpt)
    ELSE IF label \notin DOMAIN gs.graph_.label_to_vertices
    THEN resetVertexStateAndReturn(gs, NullOpt)
    ELSE IF dst_vertex_id \notin gs.graph_.label_to_vertices[label]
    THEN resetVertexStateAndReturn(gs, NullOpt)
    ELSE Search(gs, src_vertex_id, dst_vertex_id, label)

\* lines 86-106, then Search
\* ShortestPath that looks the label up with operator[], which inserts an
\* empty set for a label that is not in the index
ShortestPathBody_IndexOperator(gs, src_vertex_id, dst_vertex_id, label) ==
    IF ~vertexExists(gs, src_vertex_id) \/ ~vertexExists(gs, dst_vertex_id)
    THEN resetVertexStateAndReturn(gs, NullOpt)
    ELSE IF label \notin DOMAIN gs.graph_.label_to_vertices
    THEN resetVertexStateAndReturn(
             [gs EXCEPT !.graph_.label_to_vertices = MapPut(@, label, {})], NullOpt)
    ELSE IF src_vertex_id \notin gs.graph_.label_to_vertices[label]
            \/ dst_vertex_id \notin gs.graph_.label_to_vertices[label]
    THEN resetVertexStateAndReturn(gs, NullOpt)
    ELSE Search(gs, src_vertex_id, dst_vertex_id, label)

ShortestPathBody(gs, src_vertex_id, dst_vertex_id, label) ==
    IF ~vertexExists(gs, src_vertex_id) \/ ~vertexExists(gs, dst_vertex_id)
    THEN resetVertexStateAndReturn(gs, NullOpt)
    ELSE IF label \notin DOMAIN gs.graph_.label_to_vertices
    THEN resetVertexStateAndReturn(gs, NullOpt)
    ELSE IF src_vertex_id \notin gs.graph_.label_to_vertices[label]
            \/ dst_vertex_id \notin gs.graph_.label_to_vertices[label]
    THEN resetVertexStateAndReturn(gs, NullOpt)
    ELSE Search(gs, src_vertex_id, dst_vertex_id, label)

\* GraphStore::ShortestPath, as its caller sees it: the store afterwards,
\* the value returned (none that is defined when the call indexed a vector
\* past its end), and the VertexState entries the call read or wrote
ShortestPath(gs, src_vertex_id, dst_vertex_id, label) ==
    LET out == ShortestPathBody(gs, src_vertex_id, dst_vertex_id, label)
    IN  [gs |-> [out.gs EXCEPT !.vertex_state_ = ClearHistory(@)],
         ret |-> IF out.gs.vertex_state_.ub THEN Undefined ELSE out.ret,
         accessed |-> out.gs.vertex_state_.accessed]

(***************************************************************************)
(* The bulk constructor: the vertices, then the labels, then the edges.    *)
(* It yields [gs, ids, thrown]: the store, the ids its CreateVertex calls  *)
(* returned, and whether std::invalid_argument was thrown.                 *)
(***************************************************************************)
\* lines 25-27
RECURSIVE CreateVertices(_, _)
CreateVertices(acc, count) ==
    IF count = 0 THEN acc
    ELSE LET made == CreateVertex(acc.gs)
         IN  CreateVertices([gs |-> made.gs, ids |-> Append(acc.ids, made.ret)], count - 1)

\* lines 30-36: the (label, vertex) pairs of the map, in the order the
\* hash containers happen to yield them
RECURSIVE PopulateLabels(_, _)
PopulateLabels(acc, pairs) ==
    IF pairs = {} \/ acc.thrown THEN acc
    ELSE LET pair == CHOOSE x \in pairs : TRUE
             added == AddLabel(acc.gs, pair[2], pair[1])
         IN  PopulateLabels([acc EXCEPT !.gs = added.gs, !.thrown = ~added.ret], pairs \ {pair})

\* PopulateEdges that does not look at what CreateEdge returns
RECURSIVE PopulateEdges_NoThrow(_, _)
PopulateEdges_NoThrow(acc, edges) ==
    IF edges = <<>> THEN acc
    ELSE LET made == CreateEdge(acc.gs, Head(edges)[1], Head(edges)[2])
         IN  PopulateEdges_NoThrow([acc EXCEPT !.gs = made.gs], Tail(edges))

\* lines 39-43
RECURSIVE PopulateEdges(_, _)
PopulateEdges(acc, edges) ==
    IF edges = <<>> \/ acc.thrown THEN acc
    ELSE LET made == CreateEdge(acc.gs, Head(edges)[1], Head(edges)[2])
         IN  PopulateEdges([acc EXCEPT !.gs = made.gs, !.thrown = ~made.ret], Tail(edges))

BulkGraphStore(vertex_count, label_to_vertices, edges, strategy) ==
    LET created == CreateVertices([gs |-> GraphStore(strategy), ids |-> <<>>], vertex_count)
        pairs == UNION {{<<l, v>> : v \in label_to_vertices[l]} : l \in DOMAIN label_to_vertices}
        labelled == PopulateLabels([gs |-> created.gs, ids |-> created.ids, thrown |-> FALSE], pairs)
    IN  PopulateEdges(labelled, edges)

(***************************************************************************)
(* The state machine.  The clients hand vertex ids 0..n to the calls,      *)
(* where n, the number of vertices, is the smallest id out of range.       *)
(***************************************************************************)
\* what every store holds, read off one of them (they get the same calls)
VertexCount == Len(store["OPTIMIZED_MEMORY"].graph_.neighbours)

RECURSIVE SumLen(_)
SumLen(lists) == IF lists = <<>> THEN 0 ELSE Len(Head(lists)) + SumLen(Tail(lists))

EdgeCount == SumLen(store["OPTIMIZED_MEMORY"].graph_.neighbours)

\* the vertex ids the clients pass
Ids == 0..VertexCount

\* the arguments of the bulk constructor the runs start from
InitLabelMaps(vertex_count) ==
    UNION {[keys -> SUBSET (0..vertex_count)] : keys \in SUBSET Labels}

InitEdgeLists(vertex_count) ==
    UNION {[1..k -> (0..vertex_count) \X (0..vertex_count)] : k \in 0..MaxInitEdges}

\* a store is there once its constructor has returned without throwing
Init ==
    \E vertex_count \in 0..MaxVertices :
    \E label_to_vertices \in InitLabelMaps(vertex_count) :
    \E edges \in InitEdgeLists(vertex_count) :
        LET built == [s \in Strategy |-> BulkGraphStore(vertex_count, label_to_vertices, edges, s)]
        IN  /\ \A s \in Strategy : ~built[s].thrown
            /\ store = [s \in Strategy |-> built[s].gs]
            /\ issued = [s \in Strategy |-> built[s].ids]
            /\ call = Idle

CreateVertexCall ==
    /\ VertexCount < MaxVertices
    /\ store' = [s \in Strategy |-> CreateVertex(store[s]).gs]
    /\ issued' = [s \in Strategy |-> Append(issued[s], CreateVertex(store[s]).ret)]
    /\ UNCHANGED call

CreateEdgeCall ==
    \E src_vertex_id \in Ids, dst_vertex_id \in Ids :
        /\ EdgeCount < MaxEdges
        /\ store' = [s \in Strategy |-> CreateEdge(store[s], src_vertex_id, dst_vertex_id).gs]
        /\ UNCHANGED <<issued, call>>

AddLabelCall ==
    \E vertex_id \in Ids, label \in Labels :
        /\ store' = [s \in Strategy |-> AddLabel(store[s], vertex_id, label).gs]
        /\ UNCHANGED <<issued, call>>

RemoveLabelCall ==
    \E vertex_id \in Ids, label \in Labels :
        /\ store' = [s \in Strategy |-> RemoveLabel(store[s], vertex_id, label).gs]
        /\ UNCHANGED <<issued, call>>

ShortestPathCall ==
    \E src_vertex_id \in Ids, dst_vertex_id \in Ids, label \in Labels :
        /\ store' = [s \in Strategy |-> ShortestPath(store[s], src_vertex_id, dst_vertex_id, label).gs]
        /\ UNCHANGED <<issued, call>>

Next ==
    \/ CreateVertexCall
    \/ CreateEdgeCall
    \/ AddLabelCall
    \/ RemoveLabelCall
    \/ ShortestPathCall

Spec == Init /\ [][Next]_vars

\* the queries a client can make in the current state
Queries == Ids \X Ids \X Labels

\* what store[s] returns for the query q
Answer(s, q) == ShortestPath(store[s], q[1], q[2], q[3])

(***************************************************************************)
(* The reference the tests compare against: Floyd-Warshall over the edges  *)
(* whose two ends hold the label (RandomGraphsWithMultipleLabels).         *)
(***************************************************************************)
\* "no path" in the tests' distance matrices
inf == 1000000000

Min(a, b) == IF a < b THEN a ELSE b

\* the triple loop over k, i, j, from its step-th iteration on; as in the
\* tests the matrix is updated in place
RECURSIVE FloydLoop(_, _, _)
FloydLoop(dis, step, vertex_count) ==
    IF step >= vertex_count * vertex_count * vertex_count THEN dis
    ELSE LET k == step \div (vertex_count * vertex_count)
             i == (step \div vertex_count) % vertex_count
             j == step % vertex_count
         IN  FloydLoop([dis EXCEPT ![i][j] = Min(dis[i][j], dis[i][k] + dis[k][j])],
                       step + 1, vertex_count)

\* FloydWarshall(vertex_count, edges), edges a set of pairs
FloydWarshall(vertex_count, edges) ==
    FloydLoop([i \in 0..(vertex_count - 1) |-> [j \in 0..(vertex_count - 1) |->
                  IF i = j THEN 0 ELSE IF <<i, j>> \in edges THEN 1 ELSE inf]],
              0, vertex_count)

\* the vertices of graph that hold label
Holding(graph, label) ==
    IF label \in DOMAIN graph.label_to_vertices THEN graph.label_to_vertices[label] ELSE {}

\* the edges of graph, as pairs
Edges(graph) ==
    {e \in (0..(Len(graph.neighbours) - 1)) \X (0..(Len(graph.neighbours) - 1)) :
        e[2] \in Range(graph.neighbours[e[1] + 1])}

\* want_dis_matrix of RandomGraphsWithMultipleLabels, lines 444-459
WantDistances(graph, label) ==
    LET labelled_edges == {e \in Edges(graph) : e[1] \in Holding(graph, label)
                                                /\ e[2] \in Holding(graph, label)}
        dis == FloydWarshall(Len(graph.neighbours), labelled_edges)
    IN  [i \in 0..(Len(graph.neighbours) - 1) |-> [j \in 0..(Len(graph.neighbours) - 1) |->
            IF i = j THEN (IF i \in Holding(graph, label) THEN 0 ELSE inf) ELSE dis[i][j]]]

\* the vertex ids in range
Vertices == 0..(VertexCount - 1)

(***************************************************************************)
(* C1: in every state the stores can reach through CreateVertex,           *)
(* CreateEdge, AddLabel, RemoveLabel (and queries), for every src and dst  *)
(* in range and every label, ShortestPath returns a Path exactly when the  *)
(* reference finds dst reachable from src inside the subgraph of the       *)
(* vertices holding the label, and then the Path's length is the           *)
(* reference distance; otherwise it returns nullopt.                       *)
(***************************************************************************)
C1_LengthMatchesReference ==
    \A s \in Strategy, label \in Labels :
        LET want == WantDistances(store[s].graph_, label)
        IN  \A src \in Vertices, dst \in Vertices :
                LET got == Answer(s, <<src, dst, label>>).ret
                IN  IF want[src][dst] = inf THEN got = NullOpt
                    ELSE got.has_value /\ got.length = want[src][dst]

\* a path of two edges is found under one label while, under the other, the
\* same two vertices are joined by edges but not by labelled vertices
C1_Witness ==
    \E src \in Vertices, dst \in Vertices, l1 \in Labels, l2 \in Labels :
        /\ \A s \in Strategy : Answer(s, <<src, dst, l1>>).ret.has_value
        /\ \A s \in Strategy : Answer(s, <<src, dst, l1>>).ret.length = 2
        /\ {src, dst} \subseteq Holding(store["OPTIMIZED_MEMORY"].graph_, l2)
        /\ \A s \in Strategy : Answer(s, <<src, dst, l2>>).ret = NullOpt

(***************************************************************************)
(* C2: every Path that ShortestPath(src, dst, label) returns has           *)
(* length = |vertices| - 1, starts at src, ends at dst, follows edges of   *)
(* the graph from each vertex to the next, and visits only vertices that   *)
(* hold the label.                                                         *)
(***************************************************************************)
IsValidPath(graph, path, src, dst, label) ==
    /\ Len(path.vertices) >= 1
    /\ path.length = Len(path.vertices) - 1
    /\ path.vertices[1] = src
    /\ path.vertices[Len(path.vertices)] = dst
    /\ \A i \in 1..(Len(path.vertices) - 1) :
           <<path.vertices[i], path.vertices[i + 1]>> \in Edges(graph)
    /\ Range(path.vertices) \subseteq Holding(graph, label)

C2_ReturnedPathIsValid ==
    \A s \in Strategy, q \in Queries :
        LET out == Answer(s, q)
        IN  out.ret.has_value => IsValidPath(out.gs.graph_, out.ret, q[1], q[2], q[3])

\* a returned Path with three vertices, in a graph that also has an edge
\* that is not on it
C2_Witness ==
    \E q \in Queries :
        /\ \A s \in Strategy : Answer(s, q).ret.has_value
        /\ \A s \in Strategy : Len(Answer(s, q).ret.vertices) = 3
        /\ EdgeCount = 3

(***************************************************************************)
(* C3: for every vertex v and label, ShortestPath(v, v, label) returns     *)
(* the Path {0, [v]} if v holds the label and nullopt if it does not,      *)
(* self-loops and cycles through v notwithstanding.                        *)
(***************************************************************************)
C3_SelfPath ==
    \A s \in Strategy, v \in Vertices, label \in Labels :
        Answer(s, <<v, v, label>>).ret =
            IF v \in Holding(store[s].graph_, label) THEN Some(0, <<v>>) ELSE NullOpt

\* one vertex with a self-loop holds a label, and gets {0, [v]}; another on
\* a cycle does not hold it, and gets nullopt
C3_Witness ==
    \E v \in Vertices, w \in Vertices, label \in Labels :
        LET graph == store["OPTIMIZED_PERFORMANCE"].graph_
        IN  /\ <<v, v>> \in Edges(graph)
            /\ v \in Holding(graph, label)
            /\ \A s \in Strategy : Answer(s, <<v, v, label>>).ret = Some(0, <<v>>)
            /\ w # v /\ <<w, v>> \in Edges(graph) /\ <<v, w>> \in Edges(graph)
            /\ w \notin Holding(graph, label)
            /\ \A s \in Strategy : Answer(s, <<w, w, label>>).ret = NullOpt

(***************************************************************************)
(* C4: ShortestPath with src or dst out of range returns nullopt, on an    *)
(* empty store too, and neither reads nor writes a VertexState entry of    *)
(* an id that is out of range.                                             *)
(***************************************************************************)
C4_OutOfRange ==
    \A s \in Strategy, q \in Queries :
        (~vertexExists(store[s], q[1]) \/ ~vertexExists(store[s], q[2])) =>
            LET out == Answer(s, q)
            IN  /\ out.ret = NullOpt
                /\ \A v \in out.accessed : vertexExists(store[s], v)

\* a vertex that holds a label and has an edge is asked for a path to the
\* first id out of range
C4_Witness ==
    \E src \in Vertices, label \in Labels :
        /\ src \in Holding(store["OPTIMIZED_PERFORMANCE"].graph_, label)
        /\ store["OPTIMIZED_PERFORMANCE"].graph_.neighbours[src + 1] # <<>>
        /\ \A s \in Strategy : Answer(s, <<src, VertexCount, label>>).ret = NullOpt

(***************************************************************************)
(* C5: ShortestPath(src, dst, label) returns nullopt when the label was    *)
(* never added to a vertex, when src does not hold it and when dst does    *)
(* not hold it, whatever edges join src and dst.                           *)
(***************************************************************************)
C5_EndpointWithoutLabel ==
    \A s \in Strategy, q \in Queries :
        (\/ q[3] \notin DOMAIN store[s].graph_.label_to_vertices
         \/ q[1] \notin Holding(store[s].graph_, q[3])
         \/ q[2] \notin Holding(store[s].graph_, q[3])) =>
            Answer(s, q).ret = NullOpt

\* src has an edge to dst and to a third vertex that has an edge to dst;
\* dst and the third vertex hold the label, src does not
C5_Witness ==
    \E src \in Vertices, mid \in Vertices, dst \in Vertices, label \in Labels :
        LET graph == store["OPTIMIZED_PERFORMANCE"].graph_
        IN  /\ src # dst /\ mid # src /\ mid # dst
            /\ {<<src, dst>>, <<src, mid>>, <<mid, dst>>} \subseteq Edges(graph)
            /\ Holding(graph, label) = {mid, dst}
            /\ \A s \in Strategy : Answer(s, <<src, dst, label>>).ret = NullOpt

(***************************************************************************)
(* C6: whichever way ShortestPath returns (id out of range, label unknown, *)
(* endpoint without the label, queue exhausted, path found), it leaves     *)
(* the VertexState reset: every vertex at distance "infinity" and without  *)
(* a parent; the vectors at their defaults and the affected list empty,    *)
(* the maps empty.                                                         *)
(***************************************************************************)
IsReset(gs) ==
    LET vs == gs.vertex_state_
        ids == 0..(Len(gs.graph_.neighbours) - 1)
    IN  /\ \A v \in ids : GetDistance(vs, v) = UINT64_MAX
        /\ IF IsMemory(vs)
           THEN DOMAIN vs.distances_ = {} /\ DOMAIN vs.parent_ = {}
           ELSE /\ vs.affected_vertices_ = <<>>
                /\ Len(vs.distances_) = Len(gs.graph_.neighbours)
                /\ Len(vs.parent_) = Len(gs.graph_.neighbours)
                /\ \A v \in ids : vs.parent_[v + 1] = 0 /\ vs.distances_[v + 1] = UINT64_MAX

C6_ResetOnEveryExit ==
    \A s \in Strategy :
        /\ IsReset(store[s])
        /\ \A q \in Queries :
               LET out == Answer(s, q)
               IN  (out.ret = NullOpt \/ out.ret.has_value) /\ IsReset(out.gs)

\* the way a query leaves ShortestPath
ExitOf(gs, q) ==
    IF ~vertexExists(gs, q[1]) \/ ~vertexExists(gs, q[2]) THEN "out of range"
    ELSE IF q[3] \notin DOMAIN gs.graph_.label_to_vertices THEN "unknown label"
    ELSE IF ~({q[1], q[2]} \subseteq Holding(gs.graph_, q[3])) THEN "endpoint without label"
    ELSE IF ShortestPath(gs, q[1], q[2], q[3]).ret.has_value THEN "path found"
    ELSE "queue exhausted"

\* a state in which the clients' queries take every one of the five exits,
\* the search that exhausts its queue and the one that finds a path of one
\* edge both having written to the VertexState
C6_Witness ==
    \A s \in Strategy :
        /\ {ExitOf(store[s], q) : q \in Queries} =
               {"out of range", "unknown label", "endpoint without label",
                "path found", "queue exhausted"}
        /\ \E q \in Queries : /\ ExitOf(store[s], q) = "queue exhausted"
                              /\ Answer(s, q).accessed # {}
        /\ \E q \in Queries : Answer(s, q).ret.has_value /\ Answer(s, q).ret.length = 1

(***************************************************************************)
(* C7: what ShortestPath(src, dst, label) returns depends on the graph     *)
(* and the arguments alone: in every state, whatever calls (queries among  *)
(* them) led to it, each store answers every query as a store does that    *)
(* holds the same graph and has never run a query.                         *)
(***************************************************************************)
RECURSIVE Grown(_, _)
Grown(vs, count) == IF count = 0 THEN vs ELSE Grown(ProcessVertexAddition(vs), count - 1)

\* a store with the graph of gs whose VertexState has seen the vertices
\* created and nothing else
Pristine(gs) ==
    [graph_ |-> gs.graph_,
     vertex_state_ |-> Grown(IF IsMemory(gs.vertex_state_) THEN OptimizedMemoryVertexState
                             ELSE OptimizedPerformanceVertexState,
                             Len(gs.graph_.neighbours))]

C7_QueriesIsolated ==
    \A s \in Strategy, q \in Queries :
        Answer(s, q).ret = ShortestPath(Pristine(store[s]), q[1], q[2], q[3]).ret

\* the query 0 -> 2 that found a path of two edges is followed by 2 -> 0,
\* which exhausts the queue, and by 0 -> 1, which finds a path over vertices
\* the first one touched and gets the answer of the pristine store
C7_Witness ==
    \A s \in Strategy :
        \E label \in Labels :
            LET first == ShortestPath(store[s], 0, 2, label)
                second == ShortestPath(first.gs, 2, 0, label)
                third == ShortestPath(second.gs, 0, 1, label)
            IN  /\ first.ret = Some(2, <<0, 1, 2>>)
                /\ ExitOf(first.gs, <<2, 0, label>>) = "queue exhausted"
                /\ second.ret = NullOpt
                /\ third.ret = Some(1, <<0, 1>>)
                /\ third.accessed \subseteq first.accessed
                /\ third.ret = ShortestPath(Pristine(store[s]), 0, 1, label).ret

(***************************************************************************)
(* C8: the store with the memory-optimised and the store with the          *)
(* performance-optimised VertexState, having received the same calls,      *)
(* return the same value for every call made next: the same optional Path, *)
(* vertex for vertex, from ShortestPath, and the same values from          *)
(* CreateVertex, CreateEdge, AddLabel and RemoveLabel.                     *)
(***************************************************************************)
C8_StrategiesAgree ==
    LET m == store["OPTIMIZED_MEMORY"]
        p == store["OPTIMIZED_PERFORMANCE"]
    IN  /\ \A q \in Queries :
               ShortestPath(m, q[1], q[2], q[3]).ret = ShortestPath(p, q[1], q[2], q[3]).ret
        /\ CreateVertex(m).ret = CreateVertex(p).ret
        /\ \A a \in Ids, b \in Ids : CreateEdge(m, a, b).ret = CreateEdge(p, a, b).ret
        /\ \A v \in Ids, label \in Labels :
               /\ AddLabel(m, v, label).ret = AddLabel(p, v, label).ret
               /\ RemoveLabel(m, v, label).ret = RemoveLabel(p, v, label).ret

\* both stores return the Path {2, [2, 1, 0]}: every vertex on it but the
\* source has a parent that is not the default of either variant
C8_Witness ==
    \E label \in Labels :
        /\ ShortestPath(store["OPTIMIZED_MEMORY"], 2, 0, label).ret = Some(2, <<2, 1, 0>>)
        /\ ShortestPath(store["OPTIMIZED_PERFORMANCE"], 2, 0, label).ret = Some(2, <<2, 1, 0>>)

(***************************************************************************)
(* C9: CreateVertex returns the number of vertices there were before the   *)
(* call.  With the calls the bulk constructor makes counted in, the ids    *)
(* returned are 0, 1, 2, ... in this order, so none is returned twice; and *)
(* the number of vertices never goes down: it grows by one with each id    *)
(* handed out and stays as it is otherwise.                                *)
(***************************************************************************)
C9_IdsSoFar ==
    \A s \in Strategy :
        /\ Len(issued[s]) = Len(store[s].graph_.neighbours)
        /\ \A i \in 1..Len(issued[s]) : issued[s][i] = i - 1

C9_IdsStep ==
    \A s \in Strategy :
        /\ Len(store'[s].graph_.neighbours) >= Len(store[s].graph_.neighbours)
        /\ issued'[s] # issued[s] =>
               /\ issued'[s] = Append(issued[s], Len(store[s].graph_.neighbours))
               /\ Len(store'[s].graph_.neighbours) = Len(store[s].graph_.neighbours) + 1

C9_CreateVertexIds == []C9_IdsSoFar /\ [][C9_IdsStep]_vars

\* three ids have been handed out, the last of them to a store that already
\* had an edge and a label
C9_Witness ==
    \A s \in Strategy :
        /\ issued[s] = <<0, 1, 2>>
        /\ store[s].graph_.neighbours = <<<<1>>, <<>>, <<>>>>
        /\ Holding(store[s].graph_, "1") = {0, 1}

(***************************************************************************)
(* C10: CreateEdge(src, dst) with both ids in range returns true and puts  *)
(* dst at the end of the adjacency list of src, also when the list has     *)
(* dst already and when src = dst; it changes nothing else.                *)
(***************************************************************************)
C10_CreateEdgeAppends ==
    \A s \in Strategy, src \in Vertices, dst \in Vertices :
        LET out == CreateEdge(store[s], src, dst)
            before == store[s].graph_.neighbours
            after == out.gs.graph_.neighbours
        IN  /\ out.ret = TRUE
            /\ Len(after) = Len(before)
            /\ after[src + 1] = before[src + 1] \o <<dst>>
            /\ \A v \in Vertices \ {src} : after[v + 1] = before[v + 1]
            /\ out.gs.graph_.label_to_vertices = store[s].graph_.label_to_vertices
            /\ out.gs.vertex_state_ = store[s].vertex_state_

\* an adjacency list that got a self-loop twice, after another edge
C10_Witness ==
    \E v \in Vertices, w \in Vertices :
        /\ w # v
        /\ \A s \in Strategy : store[s].graph_.neighbours[v + 1] = <<w, v, v>>

(***************************************************************************)
(* C11: CreateEdge, AddLabel and RemoveLabel return false when a vertex id *)
(* they are given is not below the vertex count (for CreateEdge either     *)
(* end, whatever the other end is), and the store is then exactly as it    *)
(* was: the adjacency lists, the label sets and the keys of the label      *)
(* index.                                                                  *)
(***************************************************************************)
\* ids that are out of range: the first one, the next, and the largest id
OutOfRangeIds == {VertexCount, VertexCount + 1, UINT64_MAX}

C11_OutOfRangeRejected ==
    \A s \in Strategy, bad \in OutOfRangeIds :
        LET rejected == [gs |-> store[s], ret |-> FALSE]
        IN  /\ \A other \in Vertices \cup OutOfRangeIds :
                   /\ CreateEdge(store[s], bad, other) = rejected
                   /\ CreateEdge(store[s], other, bad) = rejected
            /\ \A label \in Labels :
                   /\ AddLabel(store[s], bad, label) = rejected
                   /\ AddLabel(store[s], bad, label).gs.graph_.label_to_vertices
                          = store[s].graph_.label_to_vertices
                   /\ RemoveLabel(store[s], bad, label) = rejected

\* a store with two vertices, an edge, a label in use and a label not in the
\* index, on which an edge from a valid vertex to the first id out of range
\* is rejected
C11_Witness ==
    \A s \in Strategy :
        /\ VertexCount = 2
        /\ EdgeCount >= 1
        /\ DOMAIN store[s].graph_.label_to_vertices = {"1"}
        /\ Holding(store[s].graph_, "1") = {0, 1}
        /\ CreateEdge(store[s], 0, 2).ret = FALSE
        /\ AddLabel(store[s], 2, "2").ret = FALSE

(***************************************************************************)
(* C12: labels are held as a set.  A second AddLabel(v, L) leaves the      *)
(* store as the first one left it, and after one, two or more AddLabel(v,  *)
(* L) a single RemoveLabel(v, L) leaves v without L: ShortestPath(v, v, L) *)
(* then finds no path.                                                     *)
(***************************************************************************)
\* most AddLabel calls made in a row
MaxRepeats == 3

\* the store after count calls AddLabel(vertex_id, label)
RECURSIVE AddLabelTimes(_, _, _, _)
AddLabelTimes(gs, vertex_id, label, count) ==
    IF count = 0 THEN gs
    ELSE AddLabelTimes(AddLabel(gs, vertex_id, label).gs, vertex_id, label, count - 1)

C12_LabelSetSemantics ==
    \A s \in Strategy, v \in Vertices, label \in Labels :
        /\ AddLabelTimes(store[s], v, label, 2) = AddLabelTimes(store[s], v, label, 1)
        /\ \A n \in 1..MaxRepeats :
               LET removed == RemoveLabel(AddLabelTimes(store[s], v, label, n), v, label)
               IN  /\ removed.ret = TRUE
                   /\ v \notin Holding(removed.gs.graph_, label)
                   /\ ShortestPath(removed.gs, v, v, label).ret = NullOpt

\* v and another vertex hold the label, v also has a self-loop; one more
\* AddLabel changes nothing and v finds itself until the label is removed
C12_Witness ==
    \E v \in Vertices, w \in Vertices, label \in Labels :
        \A s \in Strategy :
            /\ w # v
            /\ {v, w} \subseteq Holding(store[s].graph_, label)
            /\ v \in Range(store[s].graph_.neighbours[v + 1])
            /\ AddLabel(store[s], v, label).gs = store[s]
            /\ Answer(s, <<v, v, label>>).ret = Some(0, <<v>>)
            /\ w \in Holding(RemoveLabel(store[s], v, label).gs.graph_, label)

(***************************************************************************)
(* C13: RemoveLabel(v, L) with v in range returns true and leaves the      *)
(* whole store as it was when v does not hold L, be it that the set of L   *)
(* lacks v or that L has never been added: the label index gets no entry   *)
(* for L.                                                                  *)
(***************************************************************************)
C13_RemoveAbsentLabel ==
    \A s \in Strategy, v \in Vertices, label \in Labels :
        v \notin Holding(store[s].graph_, label) =>
            /\ RemoveLabel(store[s], v, label) = [gs |-> store[s], ret |-> TRUE]
            /\ DOMAIN RemoveLabel(store[s], v, label).gs.graph_.label_to_vertices
                   = DOMAIN store[s].graph_.label_to_vertices

\* vertex 0 holds neither label: "1" is held by vertex 1 alone, "2" is not
\* in the index
C13_Witness ==
    \A s \in Strategy :
        /\ VertexCount >= 2
        /\ DOMAIN store[s].graph_.label_to_vertices = {"1"}
        /\ Holding(store[s].graph_, "1") = {1}
        /\ RemoveLabel(store[s], 0, "2").gs = store[s]
        /\ RemoveLabel(store[s], 0, "1").gs = store[s]

(***************************************************************************)
(* C16: a second copy of an edge (u, v) that the graph already has leaves  *)
(* the length of every answer as it was: for every src, dst and label,     *)
(* ShortestPath finds a path of the same length after CreateEdge(u, v) as  *)
(* before it, or no path after as before.                                  *)
(***************************************************************************)
\* a result with the vertices of its Path left out: what is left is the
\* length, or the absence of a Path
LengthOf(ret) == IF ret.has_value THEN [ret EXCEPT !.vertices = <<>>] ELSE ret

C16_DuplicateEdgeKeepsLengths ==
    \A s \in Strategy : \A e \in Edges(store[s].graph_) :
        LET doubled == CreateEdge(store[s], e[1], e[2])
        IN  /\ doubled.ret = TRUE
            /\ \A q \in Queries :
                   LengthOf(ShortestPath(doubled.gs, q[1], q[2], q[3]).ret)
                       = LengthOf(Answer(s, q).ret)

\* the edge (u, v) is there twice, followed by another edge out of u, and
\* both stores find v and w one edge away from u
C16_Witness ==
    \E u \in Vertices, v \in Vertices, w \in Vertices, label \in Labels :
        \A s \in Strategy :
            /\ u # v /\ v # w /\ u # w
            /\ store[s].graph_.neighbours[u + 1] = <<v, v, w>>
            /\ Answer(s, <<u, v, label>>).ret = Some(1, <<u, v>>)
            /\ Answer(s, <<u, w, label>>).ret = Some(1, <<u, w>>)

(***************************************************************************)
(* The constructors, followed as calls.  A run of SpecCtor starts with     *)
(* one constructor call made and no store in existence; the step of the    *)
(* run is the constructor running to its end, with a store if it returns   *)
(* and without one if it throws.                                           *)
(***************************************************************************)
\* bounds of the arguments handed to the bulk constructor
MaxCtorVertices == 2
MaxCtorEdges == 2

\* the strategy argument, left out
Omitted == "omitted"

\* GraphStore::GraphStore(): delegates with OPTIMIZED_PERFORMANCE
DefaultGraphStore == GraphStore("OPTIMIZED_PERFORMANCE")

\* the default argument of the bulk constructor's strategy parameter
BulkDefaultStrategy == "OPTIMIZED_MEMORY"

\* the three constructors, by their parameter lists
CtorForms == {"GraphStore()", "GraphStore(strategy)",
              "GraphStore(vertex_count, label_to_vertices, edges, strategy)"}

\* the constructor calls a client can write
DefaultCall ==
    [op |-> "GraphStore", phase |-> "called", form |-> "GraphStore()",
     vertex_count |-> 0, label_to_vertices |-> EmptyMap, edges |-> <<>>, strategy |-> Omitted]

StrategyCall(strategy) ==
    [op |-> "GraphStore", phase |-> "called", form |-> "GraphStore(strategy)",
     vertex_count |-> 0, label_to_vertices |-> EmptyMap, edges |-> <<>>, strategy |-> strategy]

BulkCall(vertex_count, label_to_vertices, edges, strategy) ==
    [op |-> "GraphStore", phase |-> "called",
     form |-> "GraphStore(vertex_count, label_to_vertices, edges, strategy)",
     vertex_count |-> vertex_count, label_to_vertices |-> label_to_vertices,
     edges |-> edges, strategy |-> strategy]

\* the edge lists handed to the bulk constructor that is followed
CtorEdgeLists(vertex_count) ==
    UNION {[1..k -> (0..vertex_count) \X (0..vertex_count)] : k \in 0..MaxCtorEdges}

\* the strategy that reaches GraphStore(const Strategy strategy)
StrategyGiven(c) ==
    IF c.strategy # Omitted THEN c.strategy
    ELSE IF c.form = "GraphStore()" THEN "OPTIMIZED_PERFORMANCE"
    ELSE BulkDefaultStrategy

\* what the constructor call c comes to: [gs, ids, thrown]
Constructed(c) ==
    IF c.form = "GraphStore()"
    THEN [gs |-> DefaultGraphStore, ids |-> <<>>, thrown |-> FALSE]
    ELSE IF c.form = "GraphStore(strategy)"
    THEN [gs |-> GraphStore(c.strategy), ids |-> <<>>, thrown |-> FALSE]
    ELSE BulkGraphStore(c.vertex_count, c.label_to_vertices, c.edges, StrategyGiven(c))

InitCtor ==
    /\ store = <<>>
    /\ issued = <<>>
    /\ \/ call = DefaultCall
       \/ \E strategy \in Strategy : call = StrategyCall(strategy)
       \/ \E vertex_count \in 0..MaxCtorVertices :
          \E label_to_vertices \in InitLabelMaps(vertex_count) :
          \E edges \in CtorEdgeLists(vertex_count) :
          \E strategy \in Strategy \cup {Omitted} :
              call = BulkCall(vertex_count, label_to_vertices, edges, strategy)

\* the constructor runs; an exception leaves no object behind
Construct ==
    /\ call.op = "GraphStore"
    /\ call.phase = "called"
    /\ LET built == Constructed(call)
           s == StrategyGiven(call)
       IN  IF built.thrown
           THEN /\ call' = [call EXCEPT !.phase = "thrown"]
                /\ UNCHANGED <<store, issued>>
           ELSE /\ call' = [call EXCEPT !.phase = "returned"]
                /\ store' = [x \in {s} |-> built.gs]
                /\ issued' = [x \in {s} |-> built.ids]

NextCtor == Construct

SpecCtor == InitCtor /\ [][NextCtor]_vars

\* the constructor call followed is a call of the bulk constructor
IsBulkCall == call.op = "GraphStore"
              /\ call.form = "GraphStore(vertex_count, label_to_vertices, edges, strategy)"

(***************************************************************************)
(* C14: the bulk constructor throws exactly when a vertex id in the set of *)
(* some label, or an end of some edge, is not below vertex_count.  When it *)
(* throws there is no store.  When it returns, the store has vertex_count  *)
(* vertices, v holds L exactly when v is in label_to_vertices[L], and the  *)
(* adjacency list of every vertex is the sequence of the destinations of   *)
(* the edges given for it, in the order of the edge list.                  *)
(***************************************************************************)
\* the destinations of the edges out of vertex u, in the order of edges
DestinationsFrom(edges, u) ==
    LET From(e) == e[1] = u
        out == SelectSeq(edges, From)
    IN  [i \in 1..Len(out) |-> out[i][2]]

C14_BulkConstructor ==
    (IsBulkCall /\ call.phase # "called") =>
        LET n == call.vertex_count
            l2v == call.label_to_vertices
            bad == \/ \E label \in DOMAIN l2v : \E v \in l2v[label] : v >= n
                   \/ \E i \in 1..Len(call.edges) : call.edges[i][1] >= n \/ call.edges[i][2] >= n
        IN  /\ (call.phase = "thrown") <=> bad
            /\ (call.phase = "thrown") => DOMAIN store = {}
            /\ (call.phase = "returned") =>
                   /\ DOMAIN store = {StrategyGiven(call)}
                   /\ \A s \in DOMAIN store :
                          /\ Len(store[s].graph_.neighbours) = n
                          /\ \A label \in Labels :
                                 Holding(store[s].graph_, label)
                                     = IF label \in DOMAIN l2v THEN l2v[label] ELSE {}
                          /\ \A u \in 0..(n - 1) :
                                 store[s].graph_.neighbours[u + 1] = DestinationsFrom(call.edges, u)

\* the constructor has returned a store with two vertices whose first
\* adjacency list holds, in this order, the destinations 1 and 0 of the two
\* edges given, with label "1" on both vertices and label "2" on none
C14_Witness ==
    /\ IsBulkCall
    /\ call.phase = "returned"
    /\ call.vertex_count = 2
    /\ call.edges = <<<<0, 1>>, <<0, 0>>>>
    /\ DOMAIN call.label_to_vertices = {"1", "2"}
    /\ call.label_to_vertices["2"] = {}
    /\ \E s \in DOMAIN store :
           /\ store[s].graph_.neighbours = <<<<1, 0>>, <<>>>>
           /\ Holding(store[s].graph_, "1") = {0, 1}

(***************************************************************************)
(* C15: a GraphStore constructed without a strategy, be it by the default  *)
(* constructor or by the bulk constructor with the strategy argument left  *)
(* out, has the performance-optimised (dense) VertexState.                 *)
(***************************************************************************)
C15_DefaultIsDense ==
    (call.op = "GraphStore" /\ call.phase = "returned" /\ call.strategy = Omitted) =>
        \A s \in DOMAIN store :
            store[s].vertex_state_.type = "OptimizedPerformanceVertexState"

(***************************************************************************)
(* The parameterised test TestShortestPathOptimizedMemory /                *)
(* TestShortestPathOptimizedPerformance: a store of four vertices is       *)
(* built, the actions of a test case are applied to it, and then it is     *)
(* queried.  SpecTrace applies the actions of the test cases in any order: *)
(* labels "1" and "3" are added and removed, a vertex is created and the   *)
(* edge (3, 4) is added.                                                   *)
(***************************************************************************)
\* most vertices and edges the store of the test gets to
MaxTraceVertices == 5
MaxTraceEdges == 5

\* the arguments of the constructor call of the test
TraceVertexCount == 4
TraceLabelToVertices == [label \in {"1", "2", "3"} |->
                            IF label = "1" THEN {0, 1, 3}
                            ELSE IF label = "2" THEN {0, 2, 3} ELSE {0, 3}]
TraceEdges == <<<<0, 1>>, <<0, 2>>, <<1, 3>>, <<2, 3>>>>

\* the (vertex, label) arguments of the AddLabel and RemoveLabel actions:
\* label "3" on any vertex, label "1" on vertices 1 and 4
TraceLabelArgs == {<<v, "3">> : v \in 0..4} \cup {<<1, "1">>, <<4, "1">>}

InitTrace ==
    LET built == [s \in Strategy |->
                     BulkGraphStore(TraceVertexCount, TraceLabelToVertices, TraceEdges, s)]
    IN  /\ store = [s \in Strategy |-> built[s].gs]
        /\ issued = [s \in Strategy |-> built[s].ids]
        /\ call = Idle

TraceCreateVertex ==
    /\ VertexCount < MaxTraceVertices
    /\ store' = [s \in Strategy |-> CreateVertex(store[s]).gs]
    /\ issued' = [s \in Strategy |-> Append(issued[s], CreateVertex(store[s]).ret)]
    /\ UNCHANGED call

TraceCreateEdge ==
    /\ EdgeCount < MaxTraceEdges
    /\ store' = [s \in Strategy |-> CreateEdge(store[s], 3, 4).gs]
    /\ UNCHANGED <<issued, call>>

TraceAddLabel ==
    \E arg \in TraceLabelArgs :
        /\ store' = [s \in Strategy |-> AddLabel(store[s], arg[1], arg[2]).gs]
        /\ UNCHANGED <<issued, call>>

TraceRemoveLabel ==
    \E arg \in TraceLabelArgs :
        /\ store' = [s \in Strategy |-> RemoveLabel(store[s], arg[1], arg[2]).gs]
        /\ UNCHANGED <<issued, call>>

TraceShortestPath ==
    \E src_vertex_id \in Ids, dst_vertex_id \in Ids, label \in {"1", "2", "3"} :
        /\ store' = [s \in Strategy |-> ShortestPath(store[s], src_vertex_id, dst_vertex_id, label).gs]
        /\ UNCHANGED <<issued, call>>

NextTrace ==
    \/ TraceCreateVertex
    \/ TraceCreateEdge
    \/ TraceAddLabel
    \/ TraceRemoveLabel
    \/ TraceShortestPath

SpecTrace == InitTrace /\ [][NextTrace]_vars

(***************************************************************************)
(* C17: a query sees the mutations made before it.  On the store of the    *)
(* test (4 vertices; edges (0,1), (0,2), (1,3), (2,3); "1" on 0, 1, 3;     *)
(* "2" on 0, 2, 3; "3" on 0, 3), under both strategies:                    *)
(*   ShortestPath(0, 3, "1") = {2, [0, 1, 3]} and ShortestPath(0, 3, "3")  *)
(*   finds nothing;                                                        *)
(*   after AddLabel(2, "3"): ShortestPath(0, 3, "3") = {2, [0, 2, 3]}, and *)
(*   CreateVertex returns 4;                                               *)
(*   after CreateVertex, CreateEdge(3, 4), AddLabel(4, "1"):               *)
(*   ShortestPath(0, 4, "1") = {3, [0, 1, 3, 4]};                          *)
(*   after RemoveLabel(4, "1"): ShortestPath(0, 4, "1") finds nothing.     *)
(***************************************************************************)
\* the graphs the trace goes through, written out
TraceGraph(vertex_4, edge_3_4, holding_1, holding_3) ==
    [neighbours |-> <<<<1, 2>>, <<3>>, <<3>>, IF edge_3_4 THEN <<4>> ELSE <<>>>>
                        \o (IF vertex_4 THEN <<<<>>>> ELSE <<>>),
     label_to_vertices |-> [label \in {"1", "2", "3"} |->
                               IF label = "1" THEN holding_1
                               ELSE IF label = "2" THEN {0, 2, 3} ELSE holding_3]]

GraphAtStart == TraceGraph(FALSE, FALSE, {0, 1, 3}, {0, 3})
GraphAfterAddLabel3 == TraceGraph(FALSE, FALSE, {0, 1, 3}, {0, 2, 3})
GraphAfterAddLabel1 == TraceGraph(TRUE, TRUE, {0, 1, 3, 4}, {0, 2, 3})
GraphAfterRemoveLabel1 == TraceGraph(TRUE, TRUE, {0, 1, 3}, {0, 2, 3})

C17_ReferenceTrace ==
    \A s \in Strategy :
        LET g == store[s].graph_
        IN  /\ g = GraphAtStart =>
                   /\ ShortestPath(store[s], 0, 3, "1").ret = Some(2, <<0, 1, 3>>)
                   /\ ShortestPath(store[s], 0, 3, "3").ret = NullOpt
            /\ g = GraphAfterAddLabel3 =>
                   /\ ShortestPath(store[s], 0, 3, "3").ret = Some(2, <<0, 2, 3>>)
                   /\ CreateVertex(store[s]).ret = 4
            /\ g = GraphAfterAddLabel1 =>
                   ShortestPath(store[s], 0, 4, "1").ret = Some(3, <<0, 1, 3, 4>>)
            /\ g = GraphAfterRemoveLabel1 =>
                   ShortestPath(store[s], 0, 4, "1").ret = NullOpt

\* the state of the trace in which the path of three edges is found: vertex
\* 4 is there, 4 was the id CreateVertex returned, the edge (3, 4) and the
\* label "1" on 4 are seen by the query
C17_Witness ==
    \A s \in Strategy :
        /\ store[s].graph_ = GraphAfterAddLabel1
        /\ issued[s] = <<0, 1, 2, 3, 4>>
        /\ ShortestPath(store[s], 0, 4, "1").ret = Some(3, <<0, 1, 3, 4>>)

(***************************************************************************)
(* ShortestPath, followed step by step.  call holds the local variables of *)
(* the call (a frame): the arguments, the queue, the flag, the vertex      *)
(* being expanded and the position in its adjacency list, the state of     *)
(* the parent walk of FindPath and the value to return.  pc is the place   *)
(* in the code the call has got to.  A frame also keeps three histories    *)
(* that the code does not have: pushed, dequeued and examined, the         *)
(* vertices pushed onto the queue, those taken from it, and the (vertex,   *)
(* neighbour) pairs the for loop has looked at, each in order.             *)
(*                                                                         *)
(* A step takes the store and the frame and yields [gs, f], the store and  *)
(* the frame after it.                                                     *)
(***************************************************************************)
\* bounds of the graphs the calls followed run on
MaxBfsVertices == 3
MaxBfsEdges == 3

\* the frame of ShortestPath(src_vertex_id, dst_vertex_id, label) on the
\* store built with strategy, at its entry
Frame(strategy, src_vertex_id, dst_vertex_id, label) ==
    [op |-> "ShortestPath", pc |-> "checks", strategy |-> strategy,
     src_vertex_id |-> src_vertex_id, dst_vertex_id |-> dst_vertex_id, label |-> label,
     vertex_queue |-> <<>>, reached_dst_vertex |-> FALSE, curr_vertex |-> 0, i |-> 0,
     walk_curr |-> 0, vertices |-> <<>>, path |-> NullOpt,
     pushed |-> <<>>, dequeued |-> <<>>, examined |-> <<>>]

\* lines 89-106: the three checks
ChecksStep(gs, f) ==
    IF \/ ~vertexExists(gs, f.src_vertex_id) \/ ~vertexExists(gs, f.dst_vertex_id)
       \/ f.label \notin DOMAIN gs.graph_.label_to_vertices
       \/ f.src_vertex_id \notin Holding(gs.graph_, f.label)
       \/ f.dst_vertex_id \notin Holding(gs.graph_, f.label)
    THEN [gs |-> gs, f |-> [f EXCEPT !.pc = "reset", !.path = NullOpt]]
    ELSE [gs |-> gs, f |-> [f EXCEPT !.pc = "seed"]]

\* lines 108-115
SeedStep(gs, f) ==
    LET bfs == Seed(gs, f.src_vertex_id, f.dst_vertex_id)
    IN  [gs |-> [gs EXCEPT !.vertex_state_ = bfs.vs],
         f |-> [f EXCEPT !.pc = "while",
                         !.vertex_queue = bfs.vertex_queue,
                         !.reached_dst_vertex = bfs.reached_dst_vertex,
                         !.pushed = bfs.vertex_queue]]

\* lines 117-119: the test of the while loop and, inside it, the vertex at
\* the front of the queue taken.  A loop that has taken more vertices than
\* the store has does not end.
WhileStep(gs, f) ==
    IF f.vertex_queue = <<>> \/ f.reached_dst_vertex
    THEN [gs |-> gs, f |-> [f EXCEPT !.pc = "after"]]
    ELSE IF Len(f.dequeued) > Len(gs.graph_.neighbours)
    THEN [gs |-> gs, f |-> [f EXCEPT !.pc = "returned", !.path = Diverges]]
    ELSE [gs |-> gs,
          f |-> [f EXCEPT !.pc = "for",
                          !.curr_vertex = Head(f.vertex_queue),
                          !.vertex_queue = Tail(f.vertex_queue),
                          !.i = 1,
                          !.dequeued = Append(@, Head(f.vertex_queue))]]

\* ForStep without the break
ForStep_NoBreak(gs, f) ==
    LET adjacent == gs.graph_.neighbours[f.curr_vertex + 1]
        valid_vertices == gs.graph_.label_to_vertices[f.label]
    IN  IF f.i > Len(adjacent)
        THEN [gs |-> gs, f |-> [f EXCEPT !.pc = "while"]]
        ELSE LET neighbour == adjacent[f.i]
                 looked == [f EXCEPT !.examined = Append(@, <<f.curr_vertex, neighbour>>)]
             IN  IF neighbour \notin valid_vertices
                 THEN [gs |-> gs, f |-> [looked EXCEPT !.i = @ + 1]]
                 ELSE LET bfs == Relax([vs |-> gs.vertex_state_, vertex_queue |-> f.vertex_queue,
                                        reached_dst_vertex |-> f.reached_dst_vertex,
                                        diverges |-> FALSE],
                                       f.curr_vertex, neighbour)
                          relaxed == [looked EXCEPT
                                         !.vertex_queue = bfs.vertex_queue,
                                         !.pushed = @ \o SubSeq(bfs.vertex_queue,
                                                                Len(f.vertex_queue) + 1,
                                                                Len(bfs.vertex_queue))]
                      IN  [gs |-> [gs EXCEPT !.vertex_state_ = bfs.vs],
                           f |-> IF neighbour = f.dst_vertex_id
                                 THEN [relaxed EXCEPT !.reached_dst_vertex = TRUE, !.i = @ + 1]
                                 ELSE [relaxed EXCEPT !.i = @ + 1]]

\* ForStep without the test of the label
ForStep_NoLabelTest(gs, f) ==
    LET adjacent == gs.graph_.neighbours[f.curr_vertex + 1]
    IN  IF f.i > Len(adjacent)
        THEN [gs |-> gs, f |-> [f EXCEPT !.pc = "while"]]
        ELSE LET neighbour == adjacent[f.i]
                 looked == [f EXCEPT !.examined = Append(@, <<f.curr_vertex, neighbour>>)]
                 bfs == Relax([vs |-> gs.vertex_state_, vertex_queue |-> f.vertex_queue,
                               reached_dst_vertex |-> f.reached_dst_vertex,
                               diverges |-> FALSE],
                              f.curr_vertex, neighbour)
                 relaxed == [looked EXCEPT
                                !.vertex_queue = bfs.vertex_queue,
                                !.pushed = @ \o SubSeq(bfs.vertex_queue,
                                                       Len(f.vertex_queue) + 1,
                                                       Len(bfs.vertex_queue))]
             IN  [gs |-> [gs EXCEPT !.vertex_state_ = bfs.vs],
                  f |-> IF neighbour = f.dst_vertex_id
                        THEN [relaxed EXCEPT !.reached_dst_vertex = TRUE, !.pc = "while"]
                        ELSE [relaxed EXCEPT !.i = @ + 1]]

\* lines 121-142: one turn of the for loop, on the i-th neighbour of
\* curr_vertex; past the last neighbour the loop is left
ForStep(gs, f) ==
    LET adjacent == gs.graph_.neighbours[f.curr_vertex + 1]
        valid_vertices == gs.graph_.label_to_vertices[f.label]
    IN  IF f.i > Len(adjacent)
        THEN [gs |-> gs, f |-> [f EXCEPT !.pc = "while"]]
        ELSE LET neighbour == adjacent[f.i]
                 looked == [f EXCEPT !.examined = Append(@, <<f.curr_vertex, neighbour>>)]
             IN  IF neighbour \notin valid_vertices
                 THEN [gs |-> gs, f |-> [looked EXCEPT !.i = @ + 1]]
                 ELSE LET bfs == Relax([vs |-> gs.vertex_state_, vertex_queue |-> f.vertex_queue,
                                        reached_dst_vertex |-> f.reached_dst_vertex,
                                        diverges |-> FALSE],
                                       f.curr_vertex, neighbour)
                          relaxed == [looked EXCEPT
                                         !.vertex_queue = bfs.vertex_queue,
                                         !.pushed = @ \o SubSeq(bfs.vertex_queue,
                                                                Len(f.vertex_queue) + 1,
                                                                Len(bfs.vertex_queue))]
                      IN  [gs |-> [gs EXCEPT !.vertex_state_ = bfs.vs],
                           f |-> IF neighbour = f.dst_vertex_id
                                 THEN [relaxed EXCEPT !.reached_dst_vertex = TRUE, !.pc = "while"]
                                 ELSE [relaxed EXCEPT !.i = @ + 1]]

\* lines 145-149: after the loop
AfterStep(gs, f) ==
    IF ~f.reached_dst_vertex
    THEN [gs |-> gs, f |-> [f EXCEPT !.pc = "reset", !.path = NullOpt]]
    ELSE [gs |-> gs, f |-> [f EXCEPT !.pc = "walk", !.walk_curr = f.dst_vertex_id]]

\* FindPath, one call of findPathRec at a time: vertices holds the vertices
\* whose push_back is pending, the one to be pushed first in front.  A walk
\* over more vertices than the store has does not end.
WalkStep(gs, f) ==
    IF f.walk_curr = f.src_vertex_id
    THEN LET vertices == <<f.walk_curr>> \o f.vertices
         IN  [gs |-> gs,
              f |-> [f EXCEPT !.pc = "reset", !.vertices = vertices,
                              !.path = Some(Len(vertices) - 1, vertices)]]
    ELSE IF Len(f.vertices) > Len(gs.graph_.neighbours)
    THEN [gs |-> gs, f |-> [f EXCEPT !.pc = "returned", !.path = Diverges]]
    ELSE LET vs == Touch(gs.vertex_state_, {f.walk_curr})
         IN  [gs |-> [gs EXCEPT !.vertex_state_ = vs],
              f |-> [f EXCEPT !.walk_curr = GetParent(vs, f.walk_curr),
                              !.vertices = <<f.walk_curr>> \o @]]

\* ResetStep that returns without the Reset
ResetStep_NoReset(gs, f) ==
    [gs |-> gs,
     f |-> [f EXCEPT !.pc = "returned",
                     !.path = IF gs.vertex_state_.ub THEN Undefined ELSE f.path]]

\* the Reset before every return; a call that indexed a vector past its
\* end returns no defined value
ResetStep(gs, f) ==
    LET out == resetVertexStateAndReturn(gs, f.path)
    IN  [gs |-> out.gs,
         f |-> [f EXCEPT !.pc = "returned",
                         !.path = IF out.gs.vertex_state_.ub THEN Undefined ELSE out.ret]]

\* the graphs a followed call runs on: the vertices holding label "1" are
\* any of the vertices, label "2" is not in use
BfsLabelMaps(vertex_count) ==
    UNION {[keys -> SUBSET (0..(vertex_count - 1))] : keys \in SUBSET {"1"}}

BfsEdgeLists(vertex_count) ==
    UNION {[1..k -> (0..(vertex_count - 1)) \X (0..(vertex_count - 1))] : k \in 0..MaxBfsEdges}

InitBfs ==
    \E vertex_count \in 0..MaxBfsVertices :
    \E label_to_vertices \in BfsLabelMaps(vertex_count) :
    \E edges \in BfsEdgeLists(vertex_count) :
        LET built == [s \in Strategy |-> BulkGraphStore(vertex_count, label_to_vertices, edges, s)]
        IN  /\ \A s \in Strategy : ~built[s].thrown
            /\ store = [s \in Strategy |-> built[s].gs]
            /\ issued = [s \in Strategy |-> built[s].ids]
            /\ call = Idle

\* the store the call followed runs on
Callee == store[call.strategy]

\* the step out has been taken
Advance(out) ==
    /\ store' = [store EXCEPT ![call.strategy] = out.gs]
    /\ call' = out.f
    /\ UNCHANGED issued

InCall(pc) == call.op = "ShortestPath" /\ call.pc = pc

BfsCall ==
    /\ call = Idle
    /\ \E strategy \in Strategy, src_vertex_id \in Ids, dst_vertex_id \in Ids, label \in Labels :
           call' = Frame(strategy, src_vertex_id, dst_vertex_id, label)
    /\ UNCHANGED <<store, issued>>

BfsChecks == InCall("checks") /\ Advance(ChecksStep(Callee, call))

BfsSeed == InCall("seed") /\ Advance(SeedStep(Callee, call))

BfsWhile == InCall("while") /\ Advance(WhileStep(Callee, call))

BfsFor == InCall("for") /\ Advance(ForStep(Callee, call))

BfsAfter == InCall("after") /\ Advance(AfterStep(Callee, call))

BfsWalk == InCall("walk") /\ Advance(WalkStep(Callee, call))

BfsReset == InCall("reset") /\ Advance(ResetStep(Callee, call))

\* the caller has the value; the histories of the call are dropped
BfsReturn ==
    /\ InCall("returned")
    /\ store' = [store EXCEPT ![call.strategy].vertex_state_ = ClearHistory(@)]
    /\ call' = Idle
    /\ UNCHANGED issued

NextBfs ==
    \/ BfsCall
    \/ BfsChecks
    \/ BfsSeed
    \/ BfsWhile
    \/ BfsFor
    \/ BfsAfter
    \/ BfsWalk
    \/ BfsReset
    \/ BfsReturn

SpecBfs == InitBfs /\ [][NextBfs]_vars

\* the steps come to what the call as a whole comes to
StepsAgreeWithCall ==
    InCall("returned") =>
        call.path = ShortestPath([Callee EXCEPT !.vertex_state_ = ClearHistory(@)],
                                 call.src_vertex_id, call.dst_vertex_id, call.label).ret

\* the SetDistance and SetParent calls the call followed has made so far
Writes == Callee.vertex_state_.writes

\* the writes of the given kind ("distance" or "parent") to vertex v
WritesTo(kind, v) == {k \in 1..Len(Writes) : Writes[k][1] = kind /\ Writes[k][2] = v}

\* the call followed is a search for another vertex that has discovered it
Discovered ==
    /\ call.op = "ShortestPath"
    /\ call.src_vertex_id # call.dst_vertex_id
    /\ call.reached_dst_vertex

(***************************************************************************)
(* C18: for src # dst the search ends in the step in which dst is first    *)
(* looked at as a labelled neighbour of the vertex being expanded.  dst is *)
(* the neighbour looked at last, and once it is found no neighbour is      *)
(* looked at, no vertex is taken from the queue, none is pushed and no     *)
(* distance or parent is set, whatever the queue still holds; and from     *)
(* that step on the distance recorded for dst is the length of a shortest  *)
(* path from src to dst through vertices holding the label.                *)
(***************************************************************************)
C18_AtDiscovery ==
    (call.op = "ShortestPath" /\ call.src_vertex_id # call.dst_vertex_id) =>
        /\ call.reached_dst_vertex <=>
               \E k \in 1..Len(call.examined) : call.examined[k][2] = call.dst_vertex_id
        /\ \A k \in 1..Len(call.examined) :
               call.examined[k][2] = call.dst_vertex_id => k = Len(call.examined)
        /\ (call.reached_dst_vertex /\ call.pc \in {"while", "after", "walk"}) =>
               GetDistance(Callee.vertex_state_, call.dst_vertex_id)
                   = WantDistances(Callee.graph_, call.label)[call.src_vertex_id][call.dst_vertex_id]

C18_NothingAfter ==
    (Discovered /\ call'.op = "ShortestPath") =>
        /\ call'.examined = call.examined
        /\ call'.dequeued = call.dequeued
        /\ call'.pushed = call.pushed
        /\ call'.vertex_queue = call.vertex_queue
        /\ store'[call.strategy].vertex_state_.writes = Writes

C18_EarlyTermination == []C18_AtDiscovery /\ [][C18_NothingAfter]_vars

\* dst has just been discovered while the queue holds a vertex and the
\* vertex being expanded has a neighbour that has not been looked at
C18_Witness ==
    /\ Discovered
    /\ call.pc = "while"
    /\ call.vertex_queue # <<>>
    /\ call.i < Len(Callee.graph_.neighbours[call.curr_vertex + 1])

(***************************************************************************)
(* C19: within one ShortestPath call no vertex is pushed onto the queue    *)
(* twice, no vertex has its distance set twice or its parent set twice;    *)
(* the distance of src is set once, when the search starts, and its parent *)
(* never; whatever cycles, self-loops and repeated edges the graph has.    *)
(***************************************************************************)
C19_WrittenOnce ==
    call.op = "ShortestPath" =>
        /\ \A j \in 1..Len(call.pushed), k \in 1..Len(call.pushed) :
               call.pushed[j] = call.pushed[k] => j = k
        /\ \A v \in Vertices :
               /\ Cardinality(WritesTo("distance", v)) <= 1
               /\ Cardinality(WritesTo("parent", v)) <= 1
        /\ WritesTo("parent", call.src_vertex_id) = {}
        /\ call.pushed # <<>> =>
               /\ Cardinality(WritesTo("distance", call.src_vertex_id)) = 1
               /\ Writes[1] = <<"distance", call.src_vertex_id, 0>>

\* a search that has returned after pushing three vertices and looking at
\* an edge back to src, at a self-loop or at a second copy of an edge
C19_Witness ==
    /\ InCall("returned")
    /\ Len(call.pushed) = 3
    /\ \E k \in 1..Len(call.examined) :
           \/ call.examined[k][2] = call.src_vertex_id
           \/ \E j \in 1..(k - 1) : call.examined[j] = call.examined[k]

(***************************************************************************)
(* C20: during ShortestPath(src, dst, L) a vertex that does not hold L is  *)
(* never pushed onto the queue nor taken from it, never has a distance or  *)
(* a parent set, and is never set as the parent of a vertex, also when it  *)
(* is a neighbour of a vertex being expanded.                              *)
(***************************************************************************)
C20_UnlabelledInvisible ==
    call.op = "ShortestPath" =>
        LET holding == Holding(Callee.graph_, call.label)
        IN  /\ Range(call.pushed) \subseteq holding
            /\ Range(call.dequeued) \subseteq holding
            /\ \A k \in 1..Len(Writes) :
                   /\ Writes[k][2] \in holding
                   /\ Writes[k][1] = "parent" => Writes[k][3] \in holding

\* a path has been found by a search that looked at a neighbour without
\* the label, from which an edge leads on to dst
C20_Witness ==
    /\ InCall("returned")
    /\ call.path.has_value
    /\ \E k \in 1..Len(call.examined) :
           LET hidden == call.examined[k][2]
           IN  /\ hidden \notin Holding(Callee.graph_, call.label)
               /\ call.dst_vertex_id \in Range(Callee.graph_.neighbours[hidden + 1])

(***************************************************************************)
(* SpecState: the two VertexState classes on their own, driven through the *)
(* public interface of VertexState.  One object of each class receives the *)
(* same calls, on the ids of the vertices it has been told of.  Here       *)
(* store[s] is the VertexState object of strategy s, issued the ids told   *)
(* by ProcessVertexAddition, and call the call made last.                  *)
(***************************************************************************)
\* most vertices the VertexState objects are told of
MaxStateVertices == 2
\* largest distance handed to SetDistance
MaxStateDistance == 2
\* longest list of affected vertices (SetDistance is not called beyond it)
MaxAffected == 3

InitState ==
    /\ store = [s \in Strategy |-> (GraphStore(s)).vertex_state_]
    /\ issued = <<>>
    /\ call = Idle

StateProcessVertexAddition ==
    /\ Len(issued) < MaxStateVertices
    /\ store' = [s \in Strategy |-> ProcessVertexAddition(store[s])]
    /\ issued' = Append(issued, Len(issued))
    /\ call' = [op |-> "ProcessVertexAddition"]

StateSetDistance ==
    \E vertex_id \in Range(issued), value \in 0..MaxStateDistance :
        /\ Len(store["OPTIMIZED_PERFORMANCE"].affected_vertices_) < MaxAffected
        /\ store' = [s \in Strategy |-> ClearHistory(SetDistance(store[s], vertex_id, value))]
        /\ call' = [op |-> "SetDistance", vertex_id |-> vertex_id, value |-> value]
        /\ UNCHANGED issued

StateSetParent ==
    \E vertex_id \in Range(issued), parent_vertex_id \in Range(issued) :
        /\ store' = [s \in Strategy |-> ClearHistory(SetParent(store[s], vertex_id, parent_vertex_id))]
        /\ call' = [op |-> "SetParent", vertex_id |-> vertex_id,
                    parent_vertex_id |-> parent_vertex_id]
        /\ UNCHANGED issued

StateReset ==
    /\ store' = [s \in Strategy |-> Reset(store[s])]
    /\ call' = [op |-> "Reset"]
    /\ UNCHANGED issued

NextState ==
    \/ StateProcessVertexAddition
    \/ StateSetDistance
    \/ StateSetParent
    \/ StateReset

SpecState == InitState /\ [][NextState]_vars

\* the dense object
Dense == store["OPTIMIZED_PERFORMANCE"]

\* the sparse object
Sparse == store["OPTIMIZED_MEMORY"]

(***************************************************************************)
(* C21: in the dense VertexState every SetDistance(v, d) and every         *)
(* SetParent(v, p) appends v to the list of affected vertices, and Reset   *)
(* sets exactly the entries the list names to their defaults (distance     *)
(* UINT64_MAX, parent 0), leaves the others, and empties the list.         *)
(***************************************************************************)
C21_Step ==
    /\ call'.op \in {"SetDistance", "SetParent"} =>
           Dense'.affected_vertices_ = Append(Dense.affected_vertices_, call'.vertex_id)
    /\ call'.op = "Reset" =>
           /\ Dense'.affected_vertices_ = <<>>
           /\ \A v \in Range(issued) :
                  IF v \in Range(Dense.affected_vertices_)
                  THEN /\ GetDistance(Dense', v) = UINT64_MAX
                       /\ GetParent(Dense', v) = 0
                  ELSE /\ GetDistance(Dense', v) = GetDistance(Dense, v)
                       /\ GetParent(Dense', v) = GetParent(Dense, v)

C21_AffectedListComplete == [][C21_Step]_vars

(***************************************************************************)
(* C22: after any calls of SetDistance, SetParent, Reset and               *)
(* ProcessVertexAddition on existing ids, GetDistance(v) and GetParent(v)  *)
(* return the same in the sparse and in the dense VertexState for every    *)
(* existing v; for a v whose distance or parent has not been set since the *)
(* last Reset they return UINT64_MAX.                                      *)
(***************************************************************************)
C22_ObservablyIdentical ==
    \A v \in Range(issued) :
        /\ GetDistance(Dense, v) = GetDistance(Sparse, v)
        /\ GetParent(Dense, v) = GetParent(Sparse, v)
        /\ v \notin DOMAIN Sparse.distances_ => GetDistance(Dense, v) = UINT64_MAX
        /\ v \notin DOMAIN Sparse.parent_ => GetParent(Dense, v) = UINT64_MAX

(***************************************************************************)
(* C23: in every state a store reaches under Spec, after calls that        *)
(* succeeded and calls that failed (ids out of range are passed too),      *)
(* every vertex id in an adjacency list and every vertex id in the vertex  *)
(* set of a label is below the number of vertices.                         *)
(***************************************************************************)
C23_StoredIdsExist ==
    \A s \in Strategy :
        LET graph == store[s].graph_
        IN  /\ \A i \in 1..Len(graph.neighbours) :
                   \A neighbour \in Range(graph.neighbours[i]) : vertexExists(store[s], neighbour)
            /\ \A label \in DOMAIN graph.label_to_vertices :
                   \A vertex_id \in graph.label_to_vertices[label] : vertexExists(store[s], vertex_id)

\* a store that got edges after its construction, whose last vertex is the
\* end of an edge, holds a label and has an edge of its own
C23_Witness ==
    /\ call = Idle
    /\ VertexCount = MaxVertices
    /\ EdgeCount = MaxEdges
    /\ \A s \in Strategy :
           LET graph == store[s].graph_
           IN  /\ \E i \in 1..VertexCount : (VertexCount - 1) \in Range(graph.neighbours[i])
               /\ \E label \in DOMAIN graph.label_to_vertices :
                      (VertexCount - 1) \in graph.label_to_vertices[label]
               /\ graph.neighbours[VertexCount] # <<>>

(***************************************************************************)
(* C27: ShortestPath leaves the graph as it is.  Whatever it returns, the  *)
(* store afterwards has the same vertices, the same adjacency lists and    *)
(* the same label index, key by key and set by set; a query with a label   *)
(* that is not in the index does not put it there.                         *)
(***************************************************************************)
C27_QueryLeavesGraph ==
    \A s \in Strategy, q \in Queries :
        LET after == Answer(s, q).gs.graph_
        IN  /\ Len(after.neighbours) = Len(store[s].graph_.neighbours)
            /\ after.neighbours = store[s].graph_.neighbours
            /\ DOMAIN after.label_to_vertices = DOMAIN store[s].graph_.label_to_vertices
            /\ after.label_to_vertices = store[s].graph_.label_to_vertices

\* a store with edges in which label "2" is not in the index: a query with
\* "2" on existing vertices returns nullopt, one with "1" finds a path of
\* two edges, one runs out of vertices, and the index still lacks "2"
C27_Witness ==
    /\ call = Idle
    /\ \A s \in Strategy :
           /\ "2" \notin DOMAIN store[s].graph_.label_to_vertices
           /\ Answer(s, <<0, 1, "2">>).ret = NullOpt
           /\ "2" \notin DOMAIN Answer(s, <<0, 1, "2">>).gs.graph_.label_to_vertices
           /\ Answer(s, <<0, 2, "1">>).ret = Some(2, <<0, 1, 2>>)
           /\ Answer(s, <<2, 0, "1">>).ret = NullOpt
           /\ Answer(s, <<2, 0, "1">>).accessed # {}

\* the graphs before and after differ at most in whether vertex_id holds label
OnlyMembershipChanged(before, after, vertex_id, label) ==
    /\ after.neighbours = before.neighbours
    /\ \A other \in Labels \ {label} :
           /\ other \in DOMAIN after.label_to_vertices <=> other \in DOMAIN before.label_to_vertices
           /\ Holding(after, other) = Holding(before, other)
    /\ Holding(after, label) \ {vertex_id} = Holding(before, label) \ {vertex_id}

(***************************************************************************)
(* C28: a mutation changes its own target only.  AddLabel(v, L) and        *)
(* RemoveLabel(v, L) that return true change at most whether v is in the   *)
(* set of L: the vertices, the adjacency lists, the sets of the other      *)
(* labels and the other members of L stay.  CreateEdge(s, d) that returns  *)
(* true changes the adjacency list of s only.  CreateVertex leaves the     *)
(* adjacency lists there are and the label index, and the new vertex has   *)
(* no edge and no label.                                                   *)
(***************************************************************************)
C28_MutationsAreLocal ==
    \A s \in Strategy :
        LET before == store[s].graph_
        IN  /\ \A vertex_id \in Ids, label \in Labels :
                   /\ AddLabel(store[s], vertex_id, label).ret =>
                          OnlyMembershipChanged(before, AddLabel(store[s], vertex_id, label).gs.graph_,
                                                vertex_id, label)
                   /\ RemoveLabel(store[s], vertex_id, label).ret =>
                          OnlyMembershipChanged(before, RemoveLabel(store[s], vertex_id, label).gs.graph_,
                                                vertex_id, label)
            /\ \A src_vertex_id \in Ids, dst_vertex_id \in Ids :
                   LET out == CreateEdge(store[s], src_vertex_id, dst_vertex_id)
                   IN  out.ret =>
                           /\ Len(out.gs.graph_.neighbours) = Len(before.neighbours)
                           /\ \A i \in 1..Len(before.neighbours) :
                                  i # src_vertex_id + 1 =>
                                      out.gs.graph_.neighbours[i] = before.neighbours[i]
                           /\ out.gs.graph_.label_to_vertices = before.label_to_vertices
            /\ LET out == CreateVertex(store[s])
               IN  /\ Len(out.gs.graph_.neighbours) = Len(before.neighbours) + 1
                   /\ \A i \in 1..Len(before.neighbours) :
                          out.gs.graph_.neighbours[i] = before.neighbours[i]
                   /\ out.gs.graph_.neighbours[out.ret + 1] = <<>>
                   /\ out.gs.graph_.label_to_vertices = before.label_to_vertices
                   /\ \A label \in Labels : out.ret \notin Holding(out.gs.graph_, label)

\* a store with two labels in use and edges out of two vertices, on which
\* a RemoveLabel, an AddLabel and a CreateEdge each change the graph
C28_Witness ==
    /\ call = Idle
    /\ VertexCount = 2
    /\ \A s \in Strategy :
           LET before == store[s].graph_
           IN  /\ Holding(before, "1") = {0, 1}
               /\ Holding(before, "2") = {1}
               /\ before.neighbours = <<<<1>>, <<0>>>>
               /\ RemoveLabel(store[s], 0, "1").ret
               /\ Holding(RemoveLabel(store[s], 0, "1").gs.graph_, "1") = {1}
               /\ AddLabel(store[s], 0, "2").ret
               /\ Holding(AddLabel(store[s], 0, "2").gs.graph_, "2") = {0, 1}
               /\ CreateEdge(store[s], 0, 0).gs.graph_.neighbours = <<<<1, 0>>, <<0>>>>

(***************************************************************************)
(* C29: in the store with the dense VertexState, whatever calls were made, *)
(* the vector of distances and the vector of parents have exactly as many  *)
(* entries as there are vertices, and every entry a ShortestPath call      *)
(* reads or writes (for src, the vertices taken from the queue, their      *)
(* labelled neighbours, the vertices of the parent walk and the entries    *)
(* Reset restores) has an index below the number of vertices: no call      *)
(* indexes a vector past its end.                                          *)
(***************************************************************************)
C29_DenseInBounds ==
    LET dense == store["OPTIMIZED_PERFORMANCE"]
    IN  /\ Len(dense.vertex_state_.distances_) = Len(dense.graph_.neighbours)
        /\ Len(dense.vertex_state_.parent_) = Len(dense.graph_.neighbours)
        /\ \A q \in Queries :
               LET out == Answer("OPTIMIZED_PERFORMANCE", q)
               IN  /\ \A vertex_id \in out.accessed : vertexExists(dense, vertex_id)
                   /\ out.ret # Undefined
                   /\ Len(out.gs.vertex_state_.distances_) = Len(dense.graph_.neighbours)
                   /\ Len(out.gs.vertex_state_.parent_) = Len(dense.graph_.neighbours)

\* a dense store as large as the bounds allow where a query reads or writes
\* the entry of every vertex and one with an id out of range none
C29_Witness ==
    /\ call = Idle
    /\ VertexCount = MaxVertices
    /\ Answer("OPTIMIZED_PERFORMANCE", <<0, VertexCount - 1, "1">>).ret.has_value
    /\ Answer("OPTIMIZED_PERFORMANCE", <<0, VertexCount - 1, "1">>).ret.length = VertexCount - 1
    /\ Answer("OPTIMIZED_PERFORMANCE", <<0, VertexCount - 1, "1">>).accessed = Vertices
    /\ Answer("OPTIMIZED_PERFORMANCE", <<0, VertexCount, "1">>).accessed = {}

\* the for loop of the call followed is about to look at a neighbour that
\* holds the label and has no distance yet
AtUndiscovered ==
    /\ InCall("for")
    /\ call.i <= Len(Callee.graph_.neighbours[call.curr_vertex + 1])
    /\ Callee.graph_.neighbours[call.curr_vertex + 1][call.i] \in Holding(Callee.graph_, call.label)
    /\ GetDistance(Callee.vertex_state_,
                   Callee.graph_.neighbours[call.curr_vertex + 1][call.i]) = UINT64_MAX

(***************************************************************************)
(* C30: when the relaxation compares distance[neighbour] with              *)
(* distance[curr] + 1, the vertex curr taken from the queue has a distance *)
(* recorded, at most the number of vertices less one and so never          *)
(* UINT64_MAX: the sum does not wrap around, and a labelled neighbour      *)
(* without a distance (UINT64_MAX) is relaxed: it gets distance[curr] + 1, *)
(* curr as its parent, and is pushed onto the queue.                       *)
(***************************************************************************)
C30_CurrIsFinite ==
    call.op = "ShortestPath" =>
        /\ call.pc \in {"while", "for"} =>
               \A k \in 1..Len(call.vertex_queue) :
                   GetDistance(Callee.vertex_state_, call.vertex_queue[k])
                       <= Len(Callee.graph_.neighbours) - 1
        /\ call.pc = "for" =>
               LET distance_to_curr == GetDistance(Callee.vertex_state_, call.curr_vertex)
               IN  /\ distance_to_curr <= Len(Callee.graph_.neighbours) - 1
                   /\ distance_to_curr # UINT64_MAX
                   /\ Inc(distance_to_curr) = distance_to_curr + 1

C30_UndiscoveredRelaxed ==
    AtUndiscovered =>
        LET neighbour == Callee.graph_.neighbours[call.curr_vertex + 1][call.i]
            after == store'[call.strategy].vertex_state_
        IN  /\ GetDistance(after, neighbour) = GetDistance(Callee.vertex_state_, call.curr_vertex) + 1
            /\ GetParent(after, neighbour) = call.curr_vertex
            /\ call'.pushed = Append(call.pushed, neighbour)

C30_NoWrap == []C30_CurrIsFinite /\ [][C30_UndiscoveredRelaxed]_vars

\* the expansion of a vertex at distance 1 has given a neighbour without a
\* distance the distance 2, the number of vertices less one
C30_Witness ==
    /\ call.op = "ShortestPath"
    /\ call.pc \in {"for", "while"}
    /\ call.curr_vertex # call.src_vertex_id
    /\ GetDistance(Callee.vertex_state_, call.curr_vertex) = 1
    /\ Len(call.pushed) = 3
    /\ GetDistance(Callee.vertex_state_, call.pushed[3]) = Len(Callee.graph_.neighbours) - 1
    /\ GetParent(Callee.vertex_state_, call.pushed[3]) = call.curr_vertex

\* the vertices GetParent leads through from vertex_id until src_vertex_id
\* is met, both included; <<>> when it is not met within fuel steps
RECURSIVE ParentChain(_, _, _, _)
ParentChain(vs, vertex_id, src_vertex_id, fuel) ==
    IF vertex_id = src_vertex_id THEN <<src_vertex_id>>
    ELSE IF fuel = 0 THEN <<>>
    ELSE LET rest == ParentChain(vs, GetParent(vs, vertex_id), src_vertex_id, fuel - 1)
         IN  IF rest = <<>> THEN <<>> ELSE <<vertex_id>> \o rest

\* the search of the call followed is under way: seeded and not yet reset
Searching == call.op = "ShortestPath" /\ call.pc \in {"while", "for", "after", "walk"}

(***************************************************************************)
(* C25: from the seeding of the search to the Reset, so after every turn   *)
(* of the loops and when FindPath is called, src has distance 0 and no     *)
(* parent set, and every other vertex v with a distance has a parent p set *)
(* such that p -> v is an edge, p and v hold the label and                 *)
(* distance[v] = distance[p] + 1.  So when FindPath is called the parents  *)
(* lead from dst to src in exactly distance[dst] steps, through vertices   *)
(* that each have a parent set.                                            *)
(***************************************************************************)
C25_BfsTree ==
    Searching =>
        LET vs == Callee.vertex_state_
            graph == Callee.graph_
            holding == Holding(graph, call.label)
            src == call.src_vertex_id
        IN  /\ GetDistance(vs, src) = 0
            /\ WritesTo("parent", src) = {}
            /\ \A v \in Vertices \ {src} :
                   GetDistance(vs, v) # UINT64_MAX =>
                       /\ WritesTo("parent", v) # {}
                       /\ vertexExists(Callee, GetParent(vs, v))
                       /\ v \in Range(graph.neighbours[GetParent(vs, v) + 1])
                       /\ v \in holding
                       /\ GetParent(vs, v) \in holding
                       /\ GetDistance(vs, v) = GetDistance(vs, GetParent(vs, v)) + 1
            /\ (call.pc \in {"after", "walk"} /\ call.reached_dst_vertex) =>
                   LET chain == ParentChain(vs, call.dst_vertex_id, src, Len(graph.neighbours))
                   IN  /\ chain # <<>>
                       /\ Len(chain) - 1 = GetDistance(vs, call.dst_vertex_id)
                       /\ \A k \in 1..(Len(chain) - 1) : WritesTo("parent", chain[k]) # {}

\* FindPath is about to be called for a dst two edges away from src
C25_Witness ==
    /\ InCall("after")
    /\ call.reached_dst_vertex
    /\ GetDistance(Callee.vertex_state_, call.dst_vertex_id) = 2
    /\ Len(ParentChain(Callee.vertex_state_, call.dst_vertex_id, call.src_vertex_id, 3)) = 3

(***************************************************************************)
(* SpecBfsLive: SpecBfs with the call that is under way going on: the      *)
(* thread running ShortestPath is not stopped for ever.  Nothing makes a   *)
(* client call again.                                                      *)
(***************************************************************************)
BfsStep ==
    \/ BfsChecks
    \/ BfsSeed
    \/ BfsWhile
    \/ BfsFor
    \/ BfsAfter
    \/ BfsWalk
    \/ BfsReset
    \/ BfsReturn

\* most edges of the graphs the calls of SpecBfsLive run on
MaxLiveEdges == 2

LiveEdgeLists(vertex_count) ==
    UNION {[1..k -> (0..(vertex_count - 1)) \X (0..(vertex_count - 1))] : k \in 0..MaxLiveEdges}

InitBfsLive ==
    \E vertex_count \in 0..MaxBfsVertices :
    \E label_to_vertices \in BfsLabelMaps(vertex_count) :
    \E edges \in LiveEdgeLists(vertex_count) :
        LET built == [s \in Strategy |-> BulkGraphStore(vertex_count, label_to_vertices, edges, s)]
        IN  /\ \A s \in Strategy : ~built[s].thrown
            /\ store = [s \in Strategy |-> built[s].gs]
            /\ issued = [s \in Strategy |-> built[s].ids]
            /\ call = Idle

SpecBfsLive == InitBfsLive /\ [][NextBfs]_vars /\ WF_vars(BfsStep)

(***************************************************************************)
(* C26: every ShortestPath call ends.  On every graph, with cycles,        *)
(* self-loops and repeated edges, the loop is left (dst found or the queue *)
(* empty), the parent walk of FindPath meets src, and the call returns a   *)
(* Path or nullopt.                                                        *)
(***************************************************************************)
C26_Returns ==
    InCall("returned") => (call.path = NullOpt \/ call.path.has_value)

C26_Terminates == []C26_Returns /\ (InCall("checks") ~> InCall("returned"))

\* a search on a graph with a cycle through src has gone round it, run out
\* of vertices and returned nullopt
C26_Witness ==
    /\ InCall("returned")
    /\ call.path = NullOpt
    /\ Len(call.dequeued) = 2
    /\ \E k \in 1..Len(call.examined) :
           /\ call.examined[k][1] # call.src_vertex_id
           /\ call.examined[k][2] = call.src_vertex_id

(***************************************************************************)
(* SpecConc: two threads call ShortestPath on one store without a lock.    *)
(* Each has its frame; both work on the one VertexState of the store.  A   *)
(* step of the model is a step of one of the two calls, in any order.      *)
(* call holds the two frames and overlapped, which is set once a thread    *)
(* takes a step while the call of the other is past its checks and has     *)
(* not returned.                                                           *)
(***************************************************************************)
\* bounds of the graphs the two threads query
MaxConcVertices == 3
MaxConcEdges == 2

\* every vertex holds label "1"
ConcLabelMaps(vertex_count) == {[label \in {"1"} |-> 0..(vertex_count - 1)]}

ConcEdgeLists(vertex_count) ==
    UNION {[1..k -> (0..(vertex_count - 1)) \X (0..(vertex_count - 1))] : k \in 0..MaxConcEdges}

InitConc ==
    \E vertex_count \in 1..MaxConcVertices :
    \E label_to_vertices \in ConcLabelMaps(vertex_count) :
    \E edges \in ConcEdgeLists(vertex_count) :
        LET built == [s \in Strategy |-> BulkGraphStore(vertex_count, label_to_vertices, edges, s)]
        IN  /\ \A s \in Strategy : ~built[s].thrown
            /\ store = [s \in Strategy |-> built[s].gs]
            /\ issued = [s \in Strategy |-> built[s].ids]
            /\ call = Idle

\* the two threads enter ShortestPath on the store built with strategy
ConcCall ==
    /\ call = Idle
    /\ \E strategy \in Strategy :
       \E src_1 \in Vertices, dst_1 \in Vertices, src_2 \in Vertices, dst_2 \in Vertices :
           call' = [op |-> "concurrent", strategy |-> strategy,
                    frames |-> <<Frame(strategy, src_1, dst_1, "1"),
                                 Frame(strategy, src_2, dst_2, "1")>>,
                    overlapped |-> FALSE]
    /\ UNCHANGED <<store, issued>>

\* the call of the thread is past its checks and has not returned
Active(f) == f.pc \notin {"checks", "returned"}

\* thread t has taken the step out
ConcAdvance(t, out) ==
    /\ store' = [store EXCEPT ![call.strategy] = out.gs]
    /\ call' = [call EXCEPT !.frames[t] = out.f,
                            !.overlapped = @ \/ Active(call.frames[3 - t])]
    /\ UNCHANGED issued

\* thread t is at pc
ThreadAt(t, pc) == call.op = "concurrent" /\ call.frames[t].pc = pc

ConcChecks == \E t \in 1..2 : ThreadAt(t, "checks") /\ ConcAdvance(t, ChecksStep(Callee, call.frames[t]))

ConcSeed == \E t \in 1..2 : ThreadAt(t, "seed") /\ ConcAdvance(t, SeedStep(Callee, call.frames[t]))

ConcWhile == \E t \in 1..2 : ThreadAt(t, "while") /\ ConcAdvance(t, WhileStep(Callee, call.frames[t]))

ConcFor == \E t \in 1..2 : ThreadAt(t, "for") /\ ConcAdvance(t, ForStep(Callee, call.frames[t]))

ConcAfter == \E t \in 1..2 : ThreadAt(t, "after") /\ ConcAdvance(t, AfterStep(Callee, call.frames[t]))

ConcWalk == \E t \in 1..2 : ThreadAt(t, "walk") /\ ConcAdvance(t, WalkStep(Callee, call.frames[t]))

ConcReset == \E t \in 1..2 : ThreadAt(t, "reset") /\ ConcAdvance(t, ResetStep(Callee, call.frames[t]))

NextConc ==
    \/ ConcCall
    \/ ConcChecks
    \/ ConcSeed
    \/ ConcWhile
    \/ ConcFor
    \/ ConcAfter
    \/ ConcWalk
    \/ ConcReset

SpecConc == InitConc /\ [][NextConc]_vars

\* what the call of frame f returns when it runs alone on the store
Sequential(f) ==
    ShortestPath(Pristine(Callee), f.src_vertex_id, f.dst_vertex_id, f.label).ret

\* both calls have returned
BothReturned == call.op = "concurrent" /\ \A t \in 1..2 : call.frames[t].pc = "returned"

\* the VertexState is as after a Reset
FullyReset == ClearHistory(Callee.vertex_state_) = Pristine(Callee).vertex_state_

(***************************************************************************)
(* C24: a GraphStore is not safe for concurrent use without a lock.  Two   *)
(* ShortestPath calls whose steps are interleaved share the one            *)
(* VertexState, and there is an interleaving after which a call has        *)
(* returned something else than it returns when run alone (C24_Witness: a  *)
(* nullopt where there is a path).  The sharing is the cause: as long as   *)
(* no step of one call falls between the steps of the other, each call     *)
(* returns what it returns alone and the VertexState is reset once both    *)
(* have returned.                                                          *)
(***************************************************************************)
C24_OnlyInterleavingBreaks ==
    (call.op = "concurrent" /\ ~call.overlapped) =>
        /\ \A t \in 1..2 :
               call.frames[t].pc = "returned" => call.frames[t].path = Sequential(call.frames[t])
        /\ BothReturned => FullyReset

\* both calls have returned after steps that were interleaved, and one has
\* returned nullopt although a path exists and the call alone returns it
C24_Witness ==
    /\ BothReturned
    /\ call.overlapped
    /\ \E t \in 1..2 :
           /\ call.frames[t].path = NullOpt
           /\ Sequential(call.frames[t]).has_value

====
